---- MODULE Spec2Model ----
(***************************************************************************)
(* Model of the homieDl download orchestration:                           *)
(*   - exportify_downloader.py: DownloadRateLimiter, download_tracks,      *)
(*     run_downloader_for_csv, run_downloader and the GUI controller       *)
(*     (toggle_pause, cancel_download, start_download, reset_controls);    *)
(*   - app/downloader.py: download_job / run_job of the served job runner. *)
(* Time is in whole seconds.  The worker thread and the GUI thread         *)
(* interleave at every read of a shared flag.                              *)
(***************************************************************************)
EXTENDS Integers, Sequences, FiniteSets, TLC

\* ------------------------------------------------------------------ bounds
MaxHours == 2          \* the limiter harness runs the clock up to MaxHours*WINDOW
MaxRunHours == 1       \* a download run runs the clock up to MaxRunHours*WINDOW
MaxCalls == 3          \* wait_for_slot calls made by the limiter harness
MaxCap == 2            \* largest cap of the limiter harness
MaxRunCap == 1         \* largest --max-downloads-per-hour of a download run
MaxTracks == 2         \* rows of one CSV file
MaxFiles == 2          \* CSV files of a several-file run
MaxRuns == 2           \* Start Download presses of a repeated run
MaxSongs == 2          \* songs that a search resolves
MaxSubs == 2           \* clients of the event endpoint
MaxPublishes == 2      \* _broadcast calls of the executor thread

\* ------------------------------------------------------- program constants
WINDOW == 3600         \* exportify_downloader.py:108  cutoff = now - 3600

\* ------------------------------------------------------------------- state
VARIABLES
    now,            \* time.time(), seconds
    max_per_hour,   \* DownloadRateLimiter.max_per_hour
    timestamps,     \* DownloadRateLimiter._timestamps (deque, oldest first)
    wake_at,        \* end of the time.sleep(sleep_for) in progress
    pc,             \* position of the worker thread
    wfs_ret,        \* where wait_for_slot returns to
    wip_ret,        \* where wait_if_paused returns to
    pause_event,    \* threading.Event shared with the GUI
    cancel_event,   \* threading.Event shared with the GUI
    ctl,            \* position of the GUI thread inside cancel_download
    download_thread,\* "none" | "alive" | "dead"   (Thread.is_alive())
    harness,        \* TRUE when the worker only exercises the limiter
    calls,          \* wait_for_slot calls started so far
    trace,          \* history: admissions, fetches and progress events
    args,           \* the resolved settings (argparse.Namespace)
    csv_exists,     \* per input file: csv_path.exists()
    csv_rows,       \* per input file: the rows of the CSV
    artifacts,      \* per input file: files present in its playlist_dir
    manifest_disk,  \* per input file: content of .downloaded_tracks.json
    file_index,     \* run_downloader: enumerate(args.csv_files, start=1)
    status,         \* run_downloader: status
    result,         \* run_downloader: result of the last file
    retval,         \* value returned by run_downloader (-1 before it returns)
    tracks,         \* run_downloader_for_csv: list(read_tracks(...))
    pos,            \* download_tracks: position in tracks (1-based)
    cleaned_manifest,    \* run_downloader_for_csv
    existing_track_keys, \* run_downloader_for_csv / download_tracks
    downloaded_entries,  \* download_tracks: [(path, track_key)]
    resolved_entries,    \* run_downloader_for_csv: [(final_path, track_key)]
    save_pos,       \* run_downloader_for_csv: position in resolved_entries
    download_button,\* "normal" | "disabled"
    reset_pending,  \* root.after(0, reset_controls) queued
    runs,           \* worker threads started so far
    presses,        \* times the user presses Start Download in all
    succeeded,      \* history: items whose fetch left an artifact on disk
    pause_seen,     \* history: what the worker's last poll of pause_event read
    job,            \* app.models.Job: status, error, tracks
    playlist_name,  \* Job.playlist_name is set
    jpc,            \* position of the executor thread in run_job
    track_order,    \* download_job: track ids in download order
    results,        \* download_job: what download_songs returned
    rpos,           \* download_job: position in zip(track_order, results)
    exc,            \* the exception in flight ("" when none)
    events,         \* event_callback() calls made so far
    subs,           \* per client of GET /api/jobs/{job_id}/events: its
                    \* event_stream generator and its asyncio.Queue
    manifest_text,  \* the bytes of a manifest file while
                    \* save_download_manifest writes it (followed where a
                    \* crash of the process is modelled)
    cancel_at,      \* history: the index of the item whose pause loop the
                    \* worker was in when cancel_download set the flag
                    \* (0 when it was in none)
    hub             \* JobManager._event_subscribers[job_id] and _lock at
                    \* the grain of single statements: the list, the task
                    \* holding the lock, the loop of _broadcast

clockVars == <<now>>
limVars == <<max_per_hour, timestamps, wake_at>>
posVars == <<pc, wfs_ret, wip_ret>>
flagVars == <<pause_event, cancel_event>>
threadVars == <<ctl, download_thread, harness, calls>>
inputVars == <<args, csv_exists, csv_rows>>
saveVars == <<manifest_text>>
watchVars == <<cancel_at>>
hubVars == <<hub>>
diskVars == <<artifacts, manifest_disk>>
fileVars == <<file_index, status, result, retval>>
itemVars == <<tracks, pos, cleaned_manifest, existing_track_keys,
              downloaded_entries, resolved_entries, save_pos>>
guiVars == <<download_button, reset_pending, runs, presses>>
histVars == <<trace, succeeded, pause_seen>>

jobVars == <<job, playlist_name, jpc, track_order, results, rpos, exc, events,
            subs>>

vars == <<clockVars, limVars, posVars, flagVars, threadVars, inputVars,
          saveVars, watchVars, hubVars, diskVars, fileVars, itemVars, guiVars,
          histVars, jobVars>>

\* everything the batch downloader and its GUI own
batchVars == <<clockVars, limVars, posVars, flagVars, threadVars, inputVars,
               saveVars, watchVars, hubVars, diskVars, fileVars, itemVars,
               guiVars, histVars>>

\* ----------------------------------------------------------------- helpers
Max(a, b) == IF a >= b THEN a ELSE b

\* The instants the clock is read at: the start, and just before and exactly
\* at every multiple of the window.
TimePoints ==
    {0} \cup {k * WINDOW - e :
                 k \in 1..(IF harness THEN MaxHours ELSE MaxRunHours),
                 e \in {0, 1}}

\* index of the item being processed: enumerate(tracks, start=start_index)
CurIndex == IF harness THEN calls ELSE (args.start - 1) + pos

CurFile == IF harness THEN 0 ELSE file_index

\* A history entry.  The progress events "file", "start", "finish" and "error"
\* (note: the first word of the description, "Skipped" or "Failed"), and
\* "slot" (wait_for_slot is called; note "cancel" when cancel_event is set at
\* that instant), "admit", "fetch" (extract_info is called), "save"
\* (save_download_manifest is called), "cancelled" (DownloadCancelled is
\* raised), "status" (the worker's closing status line).
\* Admissions carry the clock; fetches and progress events carry -1.
EntryAt(kind, note, index) ==
    [kind |-> kind, note |-> note, run |-> runs, file |-> CurFile,
     index |-> index, t |-> IF kind = "admit" THEN now ELSE -1]

Entry(kind, note) == EntryAt(kind, note, CurIndex)

\* faulty variant: a timestamp never leaves the window
IsExpired_never(t, cutoff) == FALSE

\* faulty variant: a timestamp leaves the window one second early
IsExpired_early(t, cutoff) == t <= cutoff + 1

\* self._timestamps[0] <= cutoff: the test that expires a timestamp
IsExpired(t, cutoff) == t <= cutoff

\* while self._timestamps and self._timestamps[0] <= cutoff: popleft()
RECURSIVE Prune(_, _)
Prune(ts, cutoff) ==
    IF ts # <<>> /\ IsExpired(Head(ts), cutoff)
    THEN Prune(Tail(ts), cutoff)
    ELSE ts

\* raise DownloadCancelled(): unwinds to run_downloader_for_csv's handler
RaiseCancelled ==
    /\ pc' = IF harness THEN "lim_raised" ELSE "rdc_cancelled"
    /\ trace' = Append(trace, Entry("cancelled", ""))

\* ------------------------------------------------------------ the clock
\* Time passes while the worker is blocked: in time.sleep (the rate-limit
\* wait and the 0.1 s pause polls), inside extract_info, or between two calls
\* of the limiter.  The steps in between take no time.
Blocked ==
    pc \in {"wfs_sleep", "wfs_pause", "wip_pause", "dt_fetching", "lim_idle"}

Tick ==
    /\ Blocked
    /\ \E t \in TimePoints : t > now /\ now' = t
    /\ UNCHANGED <<limVars, posVars, flagVars, threadVars, inputVars, saveVars,
                   watchVars, hubVars, jobVars, diskVars, fileVars, itemVars,
                   guiVars, histVars>>

\* ------------------------------------------- DownloadRateLimiter.wait_for_slot
\* faulty variant: only a negative cap is unlimited
wfs_entry_zero_is_a_cap ==
    /\ pc = "wfs_entry"
    /\ pc' = IF max_per_hour < 0 THEN wfs_ret ELSE "wfs_cancel"
    /\ UNCHANGED <<wfs_ret, wip_ret>>
    /\ UNCHANGED <<clockVars, limVars, flagVars, threadVars, inputVars,
                   saveVars, watchVars, hubVars, jobVars, diskVars, fileVars,
                   itemVars, guiVars, histVars>>

\* faulty variant: the call returns at once whatever the cap
wfs_entry_unlimited ==
    /\ pc = "wfs_entry"
    /\ pc' = wfs_ret
    /\ UNCHANGED <<wfs_ret, wip_ret>>
    /\ UNCHANGED <<clockVars, limVars, flagVars, threadVars, inputVars,
                   saveVars, watchVars, hubVars, jobVars, diskVars, fileVars,
                   itemVars, guiVars, histVars>>

\* if self.max_per_hour <= 0: return
wfs_entry ==
    /\ pc = "wfs_entry"
    /\ pc' = IF max_per_hour <= 0 THEN wfs_ret ELSE "wfs_cancel"
    /\ UNCHANGED <<wfs_ret, wip_ret>>
    /\ UNCHANGED <<clockVars, limVars, flagVars, threadVars, inputVars,
                   saveVars, watchVars, hubVars, jobVars, diskVars, fileVars,
                   itemVars, guiVars, histVars>>

\* faulty variant: a cancelled wait takes a slot before it raises
wfs_cancel_takes_slot ==
    /\ pc = "wfs_cancel"
    /\ IF cancel_event
       THEN /\ RaiseCancelled
            /\ timestamps' = Append(timestamps, now)
       ELSE pc' = "wfs_pause" /\ UNCHANGED <<trace, timestamps>>
    /\ UNCHANGED <<max_per_hour, wake_at>>
    /\ UNCHANGED <<wfs_ret, wip_ret, succeeded, pause_seen>>
    /\ UNCHANGED <<clockVars, flagVars, threadVars, inputVars, saveVars,
                   watchVars, hubVars, jobVars, diskVars, fileVars, itemVars,
                   guiVars>>

\* while True: if cancel_event and cancel_event.is_set(): raise
wfs_cancel ==
    /\ pc = "wfs_cancel"
    /\ IF cancel_event
       THEN RaiseCancelled
       ELSE pc' = "wfs_pause" /\ UNCHANGED trace
    /\ UNCHANGED <<wfs_ret, wip_ret, succeeded, pause_seen>>
    /\ UNCHANGED <<clockVars, limVars, flagVars, threadVars, inputVars,
                   saveVars, watchVars, hubVars, jobVars, diskVars, fileVars,
                   itemVars, guiVars>>

\* while pause_event and pause_event.is_set():
wfs_pause ==
    /\ pc = "wfs_pause"
    /\ pc' = IF pause_event THEN "wfs_pcancel" ELSE "wfs_admit"
    /\ pause_seen' = pause_event
    /\ UNCHANGED <<wfs_ret, wip_ret, trace, succeeded>>
    /\ UNCHANGED <<clockVars, limVars, flagVars, threadVars, inputVars,
                   saveVars, watchVars, hubVars, jobVars, diskVars, fileVars,
                   itemVars, guiVars>>

\*     if cancel_event and cancel_event.is_set(): raise
\*     time.sleep(0.1)
wfs_pcancel ==
    /\ pc = "wfs_pcancel"
    /\ IF cancel_event
       THEN RaiseCancelled
       ELSE pc' = "wfs_pause" /\ UNCHANGED trace
    /\ UNCHANGED <<wfs_ret, wip_ret, succeeded, pause_seen>>
    /\ UNCHANGED <<clockVars, limVars, flagVars, threadVars, inputVars,
                   saveVars, watchVars, hubVars, jobVars, diskVars, fileVars,
                   itemVars, guiVars>>

\* faulty variant: a full window still admits one more
wfs_admit_full_window ==
    /\ pc = "wfs_admit"
    /\ LET cutoff == now - WINDOW
           kept == Prune(timestamps, cutoff)
       IN  IF Len(kept) <= max_per_hour
           THEN /\ timestamps' = Append(kept, now)
                /\ trace' = Append(trace, Entry("admit", ""))
                /\ pc' = wfs_ret
                /\ UNCHANGED wake_at
           ELSE /\ timestamps' = kept
                /\ wake_at' = now + Max((Head(kept) + WINDOW) - now, 0)
                /\ pc' = "wfs_sleep"
                /\ UNCHANGED trace
    /\ UNCHANGED <<max_per_hour, wfs_ret, wip_ret, succeeded, pause_seen>>
    /\ UNCHANGED <<clockVars, flagVars, threadVars, inputVars, saveVars,
                   watchVars, hubVars, jobVars, diskVars, fileVars, itemVars,
                   guiVars>>

\* now = time.time(); prune; admit when there is room, else compute sleep_for
wfs_admit ==
    /\ pc = "wfs_admit"
    /\ LET cutoff == now - WINDOW
           kept == Prune(timestamps, cutoff)
       IN  IF Len(kept) < max_per_hour
           THEN /\ timestamps' = Append(kept, now)
                /\ trace' = Append(trace, Entry("admit", ""))
                /\ pc' = wfs_ret
                /\ UNCHANGED wake_at
           ELSE /\ timestamps' = kept
                /\ wake_at' = now + Max((Head(kept) + WINDOW) - now, 0)
                /\ pc' = "wfs_sleep"
                /\ UNCHANGED trace
    /\ UNCHANGED <<max_per_hour, wfs_ret, wip_ret, succeeded, pause_seen>>
    /\ UNCHANGED <<clockVars, flagVars, threadVars, inputVars, saveVars,
                   watchVars, hubVars, jobVars, diskVars, fileVars, itemVars,
                   guiVars>>

\* time.sleep(sleep_for): returns once the whole duration has passed
wfs_sleep ==
    /\ pc = "wfs_sleep"
    /\ now >= wake_at
    /\ pc' = "wfs_cancel"
    /\ UNCHANGED <<wfs_ret, wip_ret>>
    /\ UNCHANGED <<clockVars, limVars, flagVars, threadVars, inputVars,
                   saveVars, watchVars, hubVars, jobVars, diskVars, fileVars,
                   itemVars, guiVars, histVars>>

\* ------------------------------------------------------ the GUI controller
\* the worker is inside a pause loop: its last poll of pause_event read it set
PauseBlocked ==
    /\ ~harness
    /\ pause_seen
    /\ pc \in {"wip_pause", "wip_cancel", "wfs_pause", "wfs_pcancel"}

\* faulty variant: resuming also withdraws the cancel request
toggle_pause_clears_cancel ==
    /\ ctl = "idle"
    /\ IF download_thread # "alive"
       THEN UNCHANGED <<pause_event, cancel_event>>
       ELSE /\ pause_event' = ~pause_event
            /\ cancel_event' = (cancel_event /\ ~pause_event)
    /\ UNCHANGED <<clockVars, limVars, posVars, threadVars, inputVars,
                   saveVars, watchVars, hubVars, jobVars, diskVars, fileVars,
                   itemVars, guiVars, histVars>>

\* toggle_pause: no effect unless the worker thread is alive
toggle_pause ==
    /\ ctl = "idle"
    /\ IF download_thread # "alive"
       THEN UNCHANGED pause_event
       ELSE pause_event' = ~pause_event
    /\ UNCHANGED cancel_event
    /\ UNCHANGED <<clockVars, limVars, posVars, threadVars, inputVars,
                   saveVars, watchVars, hubVars, jobVars, diskVars, fileVars,
                   itemVars, guiVars, histVars>>

\* cancel_download, first half: cancel_event.set()
cancel_download ==
    /\ ctl = "idle"
    /\ IF download_thread # "alive"
       THEN UNCHANGED <<cancel_event, ctl, cancel_at>>
       ELSE /\ cancel_event' = TRUE
            /\ ctl' = "cancel_clear_pause"
            /\ cancel_at' = IF PauseBlocked THEN CurIndex ELSE cancel_at
    /\ UNCHANGED <<pause_event, download_thread, harness, calls>>
    /\ UNCHANGED <<clockVars, limVars, posVars, inputVars, saveVars, hubVars,
                   jobVars, diskVars, fileVars, itemVars, guiVars, histVars>>

\* cancel_download, second half: pause_event.clear()
cancel_clear_pause ==
    /\ ctl = "cancel_clear_pause"
    /\ pause_event' = FALSE
    /\ ctl' = "idle"
    /\ UNCHANGED <<cancel_event, download_thread, harness, calls>>
    /\ UNCHANGED <<clockVars, limVars, posVars, inputVars, saveVars, watchVars,
                   hubVars, jobVars, diskVars, fileVars, itemVars, guiVars,
                   histVars>>

\* ------------------------------------------------------------ data model
\* str.lower() on the field values drawn
Lower(s) == IF s = "A" THEN "a" ELSE s

NonEmpty(s) == s # ""

\* Track.build_terms: "" (the empty tuple) unless title and artists are set
build_terms(track, include_album) ==
    IF track.title = "" \/ track.artists = ""
    THEN <<>>
    ELSE <<track.title, track.artists>>
         \o (IF include_album /\ track.album # "" THEN <<track.album>>
             ELSE <<>>)
         \o <<"audio">>

\* Track.identifier: " | ".join(filter(None, parts)), kept as the tuple of
\* its non-empty parts; "" is the empty tuple
identifier(track, include_album) ==
    IF track.title = "" /\ track.artists = ""
    THEN <<>>
    ELSE SelectSeq(
             <<Lower(track.title), Lower(track.artists)>>
             \o (IF include_album /\ track.album # ""
                 THEN <<Lower(track.album)>> ELSE <<>>),
             NonEmpty)

\* yt_dlp.utils.sanitize_filename on the titles drawn (no special characters)
sanitize_filename(title) == title

\* A path: dir is "pl" (under playlist_dir), "rel" (relative, as stored in the
\* manifest), "abs" (absolute, outside playlist_dir) or "none" (no path).
Path(dir, name, ext) == [dir |-> dir, name |-> name, ext |-> ext]

NoPath == Path("none", "", "")

\* final_path.relative_to(playlist_dir), ValueError keeps the path
relative_to(path) ==
    IF path.dir = "pl" THEN Path("rel", path.name, path.ext) ELSE path

\* resolved_path = Path(stored_path); playlist_dir / it unless absolute
resolve_stored(path) ==
    IF path.dir = "rel" THEN Path("pl", path.name, path.ext) ELSE path

\* candidate_exts of download_tracks, in probing order
candidate_exts(audio_format) ==
    IF audio_format # "best" THEN <<audio_format>>
    ELSE <<"mp3", "m4a", "opus", "webm", "mp4", "flac", "wav", "aac">>

\* first candidate_path that exists, NoPath when none does
RECURSIVE first_existing(_, _, _)
first_existing(files, name, exts) ==
    IF exts = <<>> THEN NoPath
    ELSE IF Path("pl", name, Head(exts)) \in files
         THEN Path("pl", name, Head(exts))
         ELSE first_existing(files, name, Tail(exts))

\* resolve_entry_path: prefer the post-processed file when it exists
resolve_entry_path(files, path, audio_format) ==
    IF audio_format = "best" THEN path
    ELSE IF path.ext # audio_format
            /\ Path(path.dir, path.name, audio_format) \in files
         THEN Path(path.dir, path.name, audio_format)
         ELSE path

\* dict assignment manifest[key] = path on a manifest kept as a set of pairs
Put(manifest, key, path) ==
    {e \in manifest : e.key # key} \cup {[key |-> key, path |-> path]}

Keys(manifest) == {e.key : e \in manifest}

\* faulty variant: stale entries are kept
reconcile_keeps_stale(manifest, files) == manifest

\* faulty variant: the manifest of an earlier run is not used
reconcile_forgets(manifest, files) == {}

\* the reconciliation loop of run_downloader_for_csv: entries whose stored
\* path resolves to an existing file
reconcile(manifest, files) ==
    {e \in manifest : resolve_stored(e.path) \in files}

\* read_tracks: rows from position start on, at most limit of them
read_tracks(rows, has_limit, limit, start) ==
    LET from == SubSeq(rows, start, Len(rows))
    IN  IF has_limit
        THEN IF limit <= 0 THEN <<>>
             ELSE SubSeq(from, 1, IF limit < Len(from) THEN limit
                                  ELSE Len(from))
        ELSE from

\* ------------------------------------------------- the fetch collaborator
\* What downloader.extract_info(query, download=True) can do for a track:
\* raise, return nothing, or return entries; an entry names a file path (or
\* none) and leaves files on disk.
FetchEntry(filepath, creates) == [filepath |-> filepath, creates |-> creates]

FetchResult(kind, entries) == [kind |-> kind, entries |-> entries]

OutExt(audio_format) == IF audio_format = "best" THEN "webm" ELSE audio_format

FetchResults(track, audio_format) ==
    LET ext == OutExt(audio_format)
        s == sanitize_filename(track.title)
        named == FetchEntry(Path("pl", s, ext), {Path("pl", s, ext)})
        conv == FetchEntry(Path("pl", "v", "webm"), {Path("pl", "v", ext)})
        nopath == FetchEntry(NoPath, {})
        lost == FetchEntry(Path("pl", "w", ext), {})
    IN  { FetchResult("DownloadError", <<>>),
          FetchResult("AttributeError", <<>>),
          FetchResult("empty", <<>>),
          FetchResult("info", <<named>>),
          FetchResult("info", <<conv>>),
          FetchResult("info", <<nopath>>),
          FetchResult("info", <<lost>>),
          FetchResult("info", <<conv, named>>) }

\* ------------------------------------------------------------ run_downloader
\* if not args.csv_files: return 1;  status = 0
rd_begin ==
    /\ pc = "rd_begin"
    /\ IF args.nfiles = 0
       THEN /\ retval' = 1
            /\ pc' = "w_report"
            /\ UNCHANGED <<status, file_index>>
       ELSE /\ status' = 0
            /\ file_index' = 1
            /\ pc' = "rd_loop"
            /\ UNCHANGED retval
    /\ UNCHANGED <<wfs_ret, wip_ret, result>>
    /\ UNCHANGED <<clockVars, limVars, flagVars, threadVars, inputVars,
                   saveVars, watchVars, hubVars, jobVars, diskVars, itemVars,
                   guiVars, histVars>>

\* for file_index, csv_path in enumerate(args.csv_files, start=1):
\*     progress_callback("file", ...);  after the loop: return status
rd_loop ==
    /\ pc = "rd_loop"
    /\ IF file_index > args.nfiles
       THEN /\ retval' = status
            /\ pc' = "w_report"
            /\ UNCHANGED trace
       ELSE /\ trace' = Append(trace, EntryAt("file", "", file_index))
            /\ pc' = "rdc_start"
            /\ UNCHANGED retval
    /\ UNCHANGED <<wfs_ret, wip_ret, file_index, status, result, succeeded,
                   pause_seen>>
    /\ UNCHANGED <<clockVars, limVars, flagVars, threadVars, inputVars,
                   saveVars, watchVars, hubVars, jobVars, diskVars, itemVars,
                   guiVars>>

\* faulty variant: run_downloader does not look at the flag between files
cancel_after_file_ignored == FALSE

\* cancel_event and cancel_event.is_set(), read after a file
cancel_after_file == cancel_event

\* faulty variant: the status is the result of the last file
rd_after_last_result ==
    /\ pc = "rd_after"
    /\ IF cancel_after_file
       THEN /\ retval' = 1
            /\ pc' = "w_report"
            /\ UNCHANGED <<status, file_index>>
       ELSE /\ status' = result
            /\ file_index' = file_index + 1
            /\ pc' = "rd_loop"
            /\ UNCHANGED retval
    /\ UNCHANGED <<wfs_ret, wip_ret, result>>
    /\ UNCHANGED <<clockVars, limVars, flagVars, threadVars, inputVars,
                   saveVars, watchVars, hubVars, jobVars, diskVars, itemVars,
                   guiVars, histVars>>

\* if cancel_event and cancel_event.is_set(): return 1
\* if result != 0: status = result
rd_after ==
    /\ pc = "rd_after"
    /\ IF cancel_after_file
       THEN /\ retval' = 1
            /\ pc' = "w_report"
            /\ UNCHANGED <<status, file_index>>
       ELSE /\ status' = IF result # 0 THEN result ELSE status
            /\ file_index' = file_index + 1
            /\ pc' = "rd_loop"
            /\ UNCHANGED retval
    /\ UNCHANGED <<wfs_ret, wip_ret, result>>
    /\ UNCHANGED <<clockVars, limVars, flagVars, threadVars, inputVars,
                   saveVars, watchVars, hubVars, jobVars, diskVars, itemVars,
                   guiVars, histVars>>

\* ---------------------------------------------------- run_downloader_for_csv
\* missing CSV: return 1; load and reconcile the manifest; read the tracks;
\* no tracks: return 0
rdc_start ==
    /\ pc = "rdc_start"
    /\ IF ~csv_exists[file_index]
       THEN /\ result' = 1
            /\ pc' = "rd_after"
            /\ UNCHANGED <<tracks, cleaned_manifest, existing_track_keys>>
       ELSE LET kept == reconcile(manifest_disk[file_index],
                                  artifacts[file_index])
                rows == read_tracks(csv_rows[file_index], args.has_limit,
                                    args.limit, args.start)
            IN  /\ cleaned_manifest' = kept
                /\ existing_track_keys' = Keys(kept)
                /\ tracks' = rows
                /\ IF rows = <<>>
                   THEN result' = 0 /\ pc' = "rd_after"
                   ELSE pc' = "dt_begin" /\ UNCHANGED result
    /\ UNCHANGED <<wfs_ret, wip_ret, file_index, status, retval, pos,
                   downloaded_entries, resolved_entries, save_pos>>
    /\ UNCHANGED <<clockVars, limVars, flagVars, threadVars, inputVars,
                   saveVars, watchVars, hubVars, jobVars, diskVars, guiVars,
                   histVars>>

\* except DownloadCancelled: return 1
rdc_cancelled ==
    /\ pc = "rdc_cancelled"
    /\ result' = 1
    /\ pc' = "rd_after"
    /\ UNCHANGED <<wfs_ret, wip_ret, file_index, status, retval>>
    /\ UNCHANGED <<clockVars, limVars, flagVars, threadVars, inputVars,
                   saveVars, watchVars, hubVars, jobVars, diskVars, itemVars,
                   guiVars, histVars>>

\* resolved_entries.append((resolve_entry_path(path, ...), track_key))
rdc_post ==
    /\ pc = "rdc_post"
    /\ resolved_entries' =
           [k \in 1..Len(downloaded_entries) |->
               [downloaded_entries[k] EXCEPT
                   !.path = resolve_entry_path(artifacts[file_index], @,
                                               args.audio_format)]]
    /\ save_pos' = 1
    /\ pc' = "rdc_save"
    /\ UNCHANGED <<wfs_ret, wip_ret, tracks, pos, cleaned_manifest,
                   existing_track_keys, downloaded_entries>>
    /\ UNCHANGED <<clockVars, limVars, flagVars, threadVars, inputVars,
                   saveVars, watchVars, hubVars, jobVars, diskVars, fileVars,
                   guiVars, histVars>>

\* for final_path, track_key in resolved_entries:
\*     skip keyless entries and missing files; cleaned_manifest[key] = path;
\*     save_download_manifest(...);   after the loop: return 0
rdc_save ==
    /\ pc = "rdc_save"
    /\ IF save_pos > Len(resolved_entries)
       THEN /\ result' = 0
            /\ pc' = "rd_after"
            /\ UNCHANGED <<save_pos, cleaned_manifest, existing_track_keys,
                           manifest_disk, trace>>
       ELSE LET e == resolved_entries[save_pos]
            IN  /\ save_pos' = save_pos + 1
                /\ pc' = "rdc_save"
                /\ UNCHANGED result
                /\ IF e.key = <<>> \/ e.path \notin artifacts[file_index]
                   THEN UNCHANGED <<cleaned_manifest, existing_track_keys,
                                    manifest_disk, trace>>
                   ELSE LET saved == Put(cleaned_manifest, e.key,
                                         relative_to(e.path))
                        IN  /\ cleaned_manifest' = saved
                            /\ existing_track_keys' =
                                   existing_track_keys \cup {e.key}
                            /\ manifest_disk' =
                                   [manifest_disk EXCEPT ![file_index] = saved]
                            /\ trace' = Append(trace,
                                               EntryAt("save", "", e.index))
    /\ UNCHANGED <<wfs_ret, wip_ret, file_index, status, retval, tracks, pos,
                   downloaded_entries, resolved_entries, artifacts, succeeded,
                   pause_seen>>
    /\ UNCHANGED <<clockVars, limVars, flagVars, threadVars, inputVars,
                   saveVars, watchVars, hubVars, jobVars, guiVars>>

\* ------------------------------------------------------------ download_tracks
\* downloaded_entries = []; rate_limiter = DownloadRateLimiter(...)
dt_begin ==
    /\ pc = "dt_begin"
    /\ max_per_hour' = args.max_downloads_per_hour
    /\ timestamps' = <<>>
    /\ downloaded_entries' = <<>>
    /\ pos' = 1
    /\ pc' = "dt_top"
    /\ UNCHANGED <<wake_at, wfs_ret, wip_ret, tracks, cleaned_manifest,
                   existing_track_keys, resolved_entries, save_pos>>
    /\ UNCHANGED <<clockVars, flagVars, threadVars, inputVars, saveVars,
                   watchVars, hubVars, jobVars, diskVars, fileVars, guiVars,
                   histVars>>

\* for index, track in enumerate(tracks, start=start_index):
\*     if cancel_event and cancel_event.is_set(): raise DownloadCancelled()
\*     wait_if_paused()
dt_top ==
    /\ pc = "dt_top"
    /\ IF pos > Len(tracks)
       THEN pc' = "rdc_post" /\ UNCHANGED <<wip_ret, trace>>
       ELSE IF cancel_event
            THEN RaiseCancelled /\ UNCHANGED wip_ret
            ELSE pc' = "wip_pause" /\ wip_ret' = "dt_item" /\ UNCHANGED trace
    /\ UNCHANGED <<wfs_ret, succeeded, pause_seen>>
    /\ UNCHANGED <<clockVars, limVars, flagVars, threadVars, inputVars,
                   saveVars, watchVars, hubVars, jobVars, diskVars, fileVars,
                   itemVars, guiVars>>

\* faulty variant: wait_if_paused returns at once
wip_never_blocks(flag) == FALSE

\* the loop test of wait_if_paused: stay in the loop while the flag is set
wip_blocks(flag) == flag

\* wait_if_paused: while pause_event and pause_event.is_set():
wip_pause ==
    /\ pc = "wip_pause"
    /\ pc' = IF wip_blocks(pause_event) THEN "wip_cancel" ELSE wip_ret
    /\ pause_seen' = pause_event
    /\ UNCHANGED <<wfs_ret, wip_ret, trace, succeeded>>
    /\ UNCHANGED <<clockVars, limVars, flagVars, threadVars, inputVars,
                   saveVars, watchVars, hubVars, jobVars, diskVars, fileVars,
                   itemVars, guiVars>>

\*     if cancel_event and cancel_event.is_set(): raise DownloadCancelled()
\*     time.sleep(0.1)
wip_cancel ==
    /\ pc = "wip_cancel"
    /\ IF cancel_event
       THEN RaiseCancelled
       ELSE pc' = "wip_pause" /\ UNCHANGED trace
    /\ UNCHANGED <<wfs_ret, wip_ret, succeeded, pause_seen>>
    /\ UNCHANGED <<clockVars, limVars, flagVars, threadVars, inputVars,
                   saveVars, watchVars, hubVars, jobVars, diskVars, fileVars,
                   itemVars, guiVars>>

\* faulty variant: the skip-set is not looked at
dt_item_ignores_keys ==
    /\ pc = "dt_item"
    /\ LET track == tracks[pos]
           track_key == identifier(track, args.include_album)
           terms == build_terms(track, args.include_album)
           sanitized_title == sanitize_filename(track.title)
           candidate_path ==
               IF sanitized_title = "" THEN NoPath
               ELSE first_existing(artifacts[file_index], sanitized_title,
                                   candidate_exts(args.audio_format))
           next == /\ pos' = pos + 1
                   /\ pc' = "dt_top"
                   /\ UNCHANGED wip_ret
       IN  IF terms = <<>>
           THEN /\ next
                /\ UNCHANGED <<downloaded_entries, existing_track_keys, trace>>
           ELSE IF candidate_path # NoPath
           THEN /\ next
                /\ downloaded_entries' =
                       Append(downloaded_entries,
                              [path |-> candidate_path, key |-> track_key,
                               index |-> CurIndex])
                /\ existing_track_keys' =
                       IF track_key # <<>>
                       THEN existing_track_keys \cup {track_key}
                       ELSE existing_track_keys
                /\ trace' = Append(trace, Entry("finish", "Skipped"))
           ELSE IF FALSE
           THEN /\ next
                /\ trace' = Append(trace, Entry("finish", "Skipped"))
                /\ UNCHANGED <<downloaded_entries, existing_track_keys>>
           ELSE IF args.dry_run
           THEN /\ next
                /\ trace' = trace \o <<Entry("start", ""), Entry("finish", "")>>
                /\ UNCHANGED <<downloaded_entries, existing_track_keys>>
           ELSE /\ trace' = Append(trace, Entry("start", ""))
                /\ pc' = "wip_pause"
                /\ wip_ret' = "dt_slot"
                /\ UNCHANGED <<pos, downloaded_entries, existing_track_keys>>
    /\ UNCHANGED <<wfs_ret, tracks, cleaned_manifest, resolved_entries,
                   save_pos, succeeded, pause_seen>>
    /\ UNCHANGED <<clockVars, limVars, flagVars, threadVars, inputVars,
                   saveVars, watchVars, hubVars, jobVars, diskVars, fileVars,
                   guiVars>>

\* one pass of the loop body up to the first wait_if_paused() of the try
\* block: the skip decisions, the start event and the dry-run shortcut
dt_item ==
    /\ pc = "dt_item"
    /\ LET track == tracks[pos]
           track_key == identifier(track, args.include_album)
           terms == build_terms(track, args.include_album)
           sanitized_title == sanitize_filename(track.title)
           candidate_path ==
               IF sanitized_title = "" THEN NoPath
               ELSE first_existing(artifacts[file_index], sanitized_title,
                                   candidate_exts(args.audio_format))
           next == /\ pos' = pos + 1
                   /\ pc' = "dt_top"
                   /\ UNCHANGED wip_ret
       IN  IF terms = <<>>
           THEN /\ next
                /\ UNCHANGED <<downloaded_entries, existing_track_keys, trace>>
           ELSE IF candidate_path # NoPath
           THEN /\ next
                /\ downloaded_entries' =
                       Append(downloaded_entries,
                              [path |-> candidate_path, key |-> track_key,
                               index |-> CurIndex])
                /\ existing_track_keys' =
                       IF track_key # <<>>
                       THEN existing_track_keys \cup {track_key}
                       ELSE existing_track_keys
                /\ trace' = Append(trace, Entry("finish", "Skipped"))
           ELSE IF track_key # <<>> /\ track_key \in existing_track_keys
           THEN /\ next
                /\ trace' = Append(trace, Entry("finish", "Skipped"))
                /\ UNCHANGED <<downloaded_entries, existing_track_keys>>
           ELSE IF args.dry_run
           THEN /\ next
                /\ trace' = trace \o <<Entry("start", ""), Entry("finish", "")>>
                /\ UNCHANGED <<downloaded_entries, existing_track_keys>>
           ELSE /\ trace' = Append(trace, Entry("start", ""))
                /\ pc' = "wip_pause"
                /\ wip_ret' = "dt_slot"
                /\ UNCHANGED <<pos, downloaded_entries, existing_track_keys>>
    /\ UNCHANGED <<wfs_ret, tracks, cleaned_manifest, resolved_entries,
                   save_pos, succeeded, pause_seen>>
    /\ UNCHANGED <<clockVars, limVars, flagVars, threadVars, inputVars,
                   saveVars, watchVars, hubVars, jobVars, diskVars, fileVars,
                   guiVars>>

\* rate_limiter.wait_for_slot(pause_event=pause_event, cancel_event=cancel_event)
dt_slot ==
    /\ pc = "dt_slot"
    /\ pc' = "wfs_entry"
    /\ wfs_ret' = "dt_after_slot"
    /\ trace' = Append(trace,
                       Entry("slot", IF cancel_event THEN "cancel" ELSE ""))
    /\ UNCHANGED <<wip_ret, succeeded, pause_seen>>
    /\ UNCHANGED <<clockVars, limVars, flagVars, threadVars, inputVars,
                   saveVars, watchVars, hubVars, jobVars, diskVars, fileVars,
                   itemVars, guiVars>>

\* wait_if_paused() after the slot was granted
dt_after_slot ==
    /\ pc = "dt_after_slot"
    /\ pc' = "wip_pause"
    /\ wip_ret' = "dt_fetch"
    /\ UNCHANGED wfs_ret
    /\ UNCHANGED <<clockVars, limVars, flagVars, threadVars, inputVars,
                   saveVars, watchVars, hubVars, jobVars, diskVars, fileVars,
                   itemVars, guiVars, histVars>>

\* info = downloader.extract_info(query, download=True): the call is made
dt_fetch ==
    /\ pc = "dt_fetch"
    /\ trace' = Append(trace, Entry("fetch", ""))
    /\ pc' = "dt_fetching"
    /\ UNCHANGED <<wfs_ret, wip_ret, succeeded, pause_seen>>
    /\ UNCHANGED <<clockVars, limVars, flagVars, threadVars, inputVars,
                   saveVars, watchVars, hubVars, jobVars, diskVars, fileVars,
                   itemVars, guiVars>>

\* faulty variant: the failure unwinds download_tracks
after_download_error_unwinds == "rdc_cancelled"

\* except yt_dlp.utils.DownloadError: report the item and go on with the loop
after_download_error == "dt_top"

\* the entries of a result that carry a file path
WithPath(entries) == SelectSeq(entries, LAMBDA e : e.filepath # NoPath)

\* faulty variant: after a fetch the walk goes back to the first item
dt_fetching_restarts ==
    /\ pc = "dt_fetching"
    /\ \E r \in FetchResults(tracks[pos], args.audio_format) :
         LET track_key == identifier(tracks[pos], args.include_album)
             made == UNION {r.entries[k].creates : k \in 1..Len(r.entries)}
             files == artifacts[file_index] \cup made
             found == WithPath(r.entries)
             recorded ==
                 [k \in 1..Len(found) |->
                     [path |-> found[k].filepath, key |-> track_key,
                      index |-> CurIndex]]
             kept == {q \in {resolve_entry_path(files, found[k].filepath,
                                                args.audio_format) :
                                 k \in 1..Len(found)} : q \in files}
         IN  /\ artifacts' = [artifacts EXCEPT ![file_index] = files]
             /\ IF r.kind = "info"
                THEN /\ downloaded_entries' = downloaded_entries \o recorded
                     /\ existing_track_keys' =
                            IF found # <<>> /\ track_key # <<>>
                            THEN existing_track_keys \cup {track_key}
                            ELSE existing_track_keys
                     /\ trace' = Append(trace, Entry("finish", ""))
                     /\ succeeded' =
                            IF kept = {} THEN succeeded
                            ELSE succeeded \cup
                                 {[run |-> runs, file |-> file_index,
                                   index |-> CurIndex, key |-> track_key,
                                   files |-> kept]}
                ELSE /\ UNCHANGED <<downloaded_entries, existing_track_keys,
                                    succeeded>>
                     /\ trace' =
                            IF r.kind = "DownloadError"
                            THEN Append(trace, Entry("error", "Failed"))
                            ELSE IF r.kind = "AttributeError"
                            THEN Append(trace, Entry("error", "Skipped"))
                            ELSE trace
             /\ pc' = IF r.kind = "DownloadError"
                      THEN after_download_error ELSE "dt_top"
    /\ pos' = 1
    /\ UNCHANGED <<wfs_ret, wip_ret, tracks, cleaned_manifest,
                   resolved_entries, save_pos, manifest_disk, pause_seen>>
    /\ UNCHANGED <<clockVars, limVars, flagVars, threadVars, inputVars,
                   saveVars, watchVars, hubVars, jobVars, fileVars, guiVars>>

\* extract_info returns or raises; record_filepath for every entry; the
\* finish or error event
dt_fetching ==
    /\ pc = "dt_fetching"
    /\ \E r \in FetchResults(tracks[pos], args.audio_format) :
         LET track_key == identifier(tracks[pos], args.include_album)
             made == UNION {r.entries[k].creates : k \in 1..Len(r.entries)}
             files == artifacts[file_index] \cup made
             found == WithPath(r.entries)
             recorded ==
                 [k \in 1..Len(found) |->
                     [path |-> found[k].filepath, key |-> track_key,
                      index |-> CurIndex]]
             kept == {q \in {resolve_entry_path(files, found[k].filepath,
                                                args.audio_format) :
                                 k \in 1..Len(found)} : q \in files}
         IN  /\ artifacts' = [artifacts EXCEPT ![file_index] = files]
             /\ IF r.kind = "info"
                THEN /\ downloaded_entries' = downloaded_entries \o recorded
                     /\ existing_track_keys' =
                            IF found # <<>> /\ track_key # <<>>
                            THEN existing_track_keys \cup {track_key}
                            ELSE existing_track_keys
                     /\ trace' = Append(trace, Entry("finish", ""))
                     /\ succeeded' =
                            IF kept = {} THEN succeeded
                            ELSE succeeded \cup
                                 {[run |-> runs, file |-> file_index,
                                   index |-> CurIndex, key |-> track_key,
                                   files |-> kept]}
                ELSE /\ UNCHANGED <<downloaded_entries, existing_track_keys,
                                    succeeded>>
                     /\ trace' =
                            IF r.kind = "DownloadError"
                            THEN Append(trace, Entry("error", "Failed"))
                            ELSE IF r.kind = "AttributeError"
                            THEN Append(trace, Entry("error", "Skipped"))
                            ELSE trace
             /\ pc' = IF r.kind = "DownloadError"
                      THEN after_download_error ELSE "dt_top"
    /\ pos' = pos + 1
    /\ UNCHANGED <<wfs_ret, wip_ret, tracks, cleaned_manifest,
                   resolved_entries, save_pos, manifest_disk, pause_seen>>
    /\ UNCHANGED <<clockVars, limVars, flagVars, threadVars, inputVars,
                   saveVars, watchVars, hubVars, jobVars, fileVars, guiVars>>

\* --------------------------------------------- the worker thread and the GUI
\* worker(): result = run_downloader(...); status_var.set(...);
\* root.after(0, reset_controls)
worker_report ==
    /\ pc = "w_report"
    /\ trace' = Append(trace,
                       EntryAt("status",
                               IF cancel_event THEN "cancelled"
                               ELSE IF retval = 0 THEN "complete"
                               ELSE "errors", 0))
    /\ reset_pending' = TRUE
    /\ pc' = "w_exit"
    /\ UNCHANGED <<wfs_ret, wip_ret, download_button, runs, presses,
                   succeeded, pause_seen>>
    /\ UNCHANGED <<clockVars, limVars, flagVars, threadVars, inputVars,
                   saveVars, watchVars, hubVars, jobVars, diskVars, fileVars,
                   itemVars>>

\* the worker thread ends: download_thread.is_alive() becomes False
worker_exit ==
    /\ pc = "w_exit"
    /\ download_thread' = "dead"
    /\ pc' = "idle"
    /\ UNCHANGED <<wfs_ret, wip_ret, ctl, harness, calls>>
    /\ UNCHANGED <<clockVars, limVars, flagVars, inputVars, saveVars,
                   watchVars, hubVars, jobVars, diskVars, fileVars, itemVars,
                   guiVars, histVars>>

\* reset_controls, run by the Tk main loop once queued
reset_controls ==
    /\ ctl = "idle"
    /\ reset_pending
    /\ reset_pending' = FALSE
    /\ download_button' = "normal"
    /\ pause_event' = FALSE
    /\ cancel_event' = FALSE
    /\ UNCHANGED <<runs, presses>>
    /\ UNCHANGED <<clockVars, limVars, posVars, threadVars, inputVars,
                   saveVars, watchVars, hubVars, jobVars, diskVars, fileVars,
                   itemVars, histVars>>

\* the worker of that run has reported "Downloads complete."
RunComplete(run) ==
    \E k \in DOMAIN trace :
        /\ trace[k].kind = "status"
        /\ trace[k].run = run
        /\ trace[k].note = "complete"

\* faulty variant: the flags are left as the previous run left them
start_download_keeps_flags ==
    /\ ctl = "idle"
    /\ ~harness
    /\ download_button = "normal"
    /\ runs < presses
    /\ UNCHANGED <<cancel_event, pause_event>>
    /\ download_button' = "disabled"
    /\ download_thread' = "alive"
    /\ runs' = runs + 1
    /\ retval' = -1
    /\ pc' = "rd_begin"
    /\ cancel_at' = 0
    /\ UNCHANGED <<reset_pending, presses, wfs_ret, wip_ret, ctl, harness,
                   calls, file_index, status, result>>
    /\ UNCHANGED <<clockVars, limVars, inputVars, saveVars, hubVars, jobVars,
                   diskVars, itemVars, histVars>>

\* start_download: clear both flags, disable the button, start the worker
start_download ==
    /\ ctl = "idle"
    /\ ~harness
    /\ download_button = "normal"
    /\ runs < presses
    /\ cancel_event' = FALSE
    /\ pause_event' = FALSE
    /\ download_button' = "disabled"
    /\ download_thread' = "alive"
    /\ runs' = runs + 1
    /\ retval' = -1
    /\ pc' = "rd_begin"
    /\ cancel_at' = 0
    /\ UNCHANGED <<reset_pending, presses, wfs_ret, wip_ret, ctl, harness,
                   calls, file_index, status, result>>
    /\ UNCHANGED <<clockVars, limVars, inputVars, saveVars, hubVars, jobVars,
                   diskVars, itemVars, histVars>>

\* ------------------------------------------------ settings of a run request
\* a setting as given: None (a blank field), an integer, or other text
\* --limit / --start and the config keys "limit" / "start"
SettingValues ==
    {[kind |-> "none", v |-> 0]}
        \cup {[kind |-> "int", v |-> n] : n \in -1..MaxTracks}

\* the texts of the Limit and Start fields of the window
FormValues == SettingValues \cup {[kind |-> "text", v |-> 0]}

\* resolve_settings: the CLI value unless it is None, else the config value;
\* a limit of 0 becomes None; a start that is None or <= 0 becomes 1
resolve_settings(a, cli_limit, cfg_limit, cli_start, cfg_start) ==
    LET limit == IF cli_limit.kind # "none" THEN cli_limit ELSE cfg_limit
        start == IF cli_start.kind # "none" THEN cli_start ELSE cfg_start
    IN  [a EXCEPT
            !.has_limit = (limit.kind = "int" /\ limit.v # 0),
            !.limit = IF limit.kind = "int" THEN limit.v ELSE 0,
            !.start = IF start.kind = "none" \/ start.v <= 0 THEN 1
                      ELSE start.v]

\* main: args = resolve_settings(parse_args()); run_downloader(args)
main_resolve ==
    /\ pc = "idle"
    /\ ~harness
    /\ runs = presses
    /\ \E cli_limit, cfg_limit, cli_start, cfg_start \in SettingValues :
          args' = resolve_settings(args, cli_limit, cfg_limit,
                                   cli_start, cfg_start)
    /\ pc' = "rd_begin"
    /\ UNCHANGED <<csv_exists, csv_rows, wfs_ret, wip_ret>>
    /\ UNCHANGED <<clockVars, limVars, flagVars, threadVars, saveVars,
                   watchVars, hubVars, jobVars, diskVars, fileVars, itemVars,
                   guiVars, histVars>>

\* start_download, the Limit and Start fields: a limit that is not a number
\* or a start that is not a number or is <= 0 shows an error and returns; a
\* blank limit or a limit of 0 is None, a blank start is defaults.start
start_download_form ==
    /\ pc = "idle"
    /\ ~harness
    /\ runs = presses
    /\ \E limit_var, start_var \in FormValues :
          IF \/ limit_var.kind = "text"
             \/ start_var.kind = "text"
             \/ (start_var.kind = "int" /\ start_var.v <= 0)
          THEN UNCHANGED <<args, pc>>
          ELSE /\ args' = [args EXCEPT
                              !.has_limit = (limit_var.kind = "int"
                                             /\ limit_var.v # 0),
                              !.limit = limit_var.v,
                              !.start = IF start_var.kind = "none"
                                        THEN 1 ELSE start_var.v]
               /\ pc' = "rd_begin"
    /\ UNCHANGED <<csv_exists, csv_rows, wfs_ret, wip_ret>>
    /\ UNCHANGED <<clockVars, limVars, flagVars, threadVars, saveVars,
                   watchVars, hubVars, jobVars, diskVars, fileVars, itemVars,
                   guiVars, histVars>>

\* the user starts the request again after a run that was reported complete
start_again ==
    /\ runs > 0 => RunComplete(runs)
    /\ start_download

\* the user deletes one of the downloaded files between two runs
remove_artifact ==
    /\ ctl = "idle"
    /\ pc = "idle"
    /\ download_button = "normal"
    /\ runs >= 1
    /\ runs < presses
    /\ \A s \in succeeded : s.files \subseteq artifacts[s.file]
    /\ \E s \in succeeded : \E q \in s.files :
          artifacts' = [artifacts EXCEPT ![s.file] = @ \ {q}]
    /\ UNCHANGED manifest_disk
    /\ UNCHANGED <<clockVars, limVars, posVars, flagVars, threadVars,
                   inputVars, saveVars, watchVars, hubVars, jobVars, fileVars,
                   itemVars, guiVars, histVars>>

\* ------------------------------------------------- app.downloader: run_job
\* track ids (build_track_id) of the songs a search resolves
SongIds == {"s1", "s2"}

SongLists == UNION {[1..n -> SongIds] : n \in 0..MaxSongs}

\* what download_songs returns for a song: a (song, path) pair, a pair whose
\* path is None, or something that is not a pair; zip() stops at the shorter
\* list
ResultLists(n) ==
    UNION {[1..m -> {"path", "no_path", "malformed"}] : m \in 0..n}

\* TrackState as created by download_job; "absent": no entry in job.tracks
TrackState(st, message, path) ==
    [status |-> st, message |-> message, path |-> path]

Absent == TrackState("absent", "", FALSE)

\* the step of zip(track_order, results) that the loop is at; past the
\* shorter of the two the loop is over
ZipLen == IF Len(results) < Len(track_order) THEN Len(results)
          ELSE Len(track_order)

\* The clients of the event endpoint.  One job is run by the executor
\* (ServedJob); OtherJob is another entry of JobManager.jobs.
Subscribers == 1..MaxSubs

ServedJob == "job"

OtherJob == "other"

\* A client: pc is the position of its event_stream generator, job the job_id
\* of the request, registered whether its queue is in
\* _event_subscribers[job_id], queue the number of "update" items in its
\* asyncio.Queue; history: joined (event_callback() calls made before it
\* subscribed), got (updates yielded), last (the job as last serialized for
\* it, <<>> before).
NoStream ==
    [pc |-> "none", job |-> ServedJob, registered |-> FALSE, queue |-> 0,
     joined |-> 0, got |-> 0, last |-> <<>>]

\* self._event_subscribers.get(job_id, [])
event_subscribers(job_id) ==
    {s \in Subscribers : subs[s].registered /\ subs[s].job = job_id}

\* faulty variant: the update goes to the subscribers of every job
broadcast_to_all(job_id) ==
    [s \in Subscribers |->
        IF subs[s].registered
        THEN [subs[s] EXCEPT !.queue = @ + 1,
                             !.pc = IF @ = "waiting" THEN "get" ELSE @]
        ELSE subs[s]]

\* faulty variant: the loop over the subscribers ends at the first queue that
\* still holds an item
broadcast_stops_at_full(job_id) ==
    [s \in Subscribers |->
        IF /\ s \in event_subscribers(job_id)
           /\ \A t \in event_subscribers(job_id) : t < s => subs[t].queue = 0
        THEN [subs[s] EXCEPT !.queue = @ + 1,
                             !.pc = IF @ = "waiting" THEN "get" ELSE @]
        ELSE subs[s]]

\* JobManager._broadcast: queue.put_nowait("update") for every subscriber of
\* the job; put_nowait wakes the getter that waits on the queue
broadcast(job_id) ==
    [s \in Subscribers |->
        IF s \in event_subscribers(job_id)
        THEN [subs[s] EXCEPT !.queue = @ + 1,
                             !.pc = IF @ = "waiting" THEN "get" ELSE @]
        ELSE subs[s]]

\* faulty variant: the mutation is not published
event_callback_silent ==
    /\ events' = events + 1
    /\ subs' = subs

\* event_callback(): lambda: self._broadcast(job_id)
event_callback ==
    /\ events' = events + 1
    /\ subs' = broadcast(ServedJob)

\* download_job up to the first event: the credentials check, the playlist
\* name, job.status = JobStatus.running
dj_start ==
    /\ jpc = "rj_begin"
    /\ \E needs_auth \in BOOLEAN, has_client \in BOOLEAN, named \in BOOLEAN :
          IF needs_auth /\ ~has_client
          THEN /\ exc' = "auth"
               /\ jpc' = "rj_except"
               /\ UNCHANGED <<job, playlist_name, events, subs>>
          ELSE /\ playlist_name' = (has_client /\ named)
               /\ job' = [job EXCEPT !.status = "running"]
               /\ event_callback
               /\ jpc' = "dj_search"
               /\ UNCHANGED exc
    /\ UNCHANGED <<track_order, results, rpos>>
    /\ UNCHANGED batchVars

\* songs = spotdl_client.search([job.url]); a failure or an empty list fails
\* the job
dj_search ==
    /\ jpc = "dj_search"
    /\ \/ /\ job' = [job EXCEPT !.status = "failed", !.error = "search"]
          /\ event_callback
          /\ jpc' = "done"
          /\ UNCHANGED track_order
       \/ \E songs \in SongLists :
             IF songs = <<>>
             THEN /\ job' = [job EXCEPT !.status = "failed",
                                        !.error = "No tracks resolved"]
                  /\ event_callback
                  /\ jpc' = "done"
                  /\ UNCHANGED track_order
             ELSE /\ track_order' = songs
                  /\ jpc' = "dj_tracks"
                  /\ UNCHANGED <<job, events, subs>>
    /\ UNCHANGED <<playlist_name, results, rpos, exc>>
    /\ UNCHANGED batchVars

\* job.tracks.setdefault(track_id, TrackState(...)); status "pending", then
\* "downloading" for every track of track_order
dj_tracks ==
    /\ jpc = "dj_tracks"
    /\ job' = [job EXCEPT !.tracks =
                  [i \in SongIds |->
                      IF \E k \in DOMAIN track_order : track_order[k] = i
                      THEN TrackState("downloading", "", FALSE)
                      ELSE @[i]]]
    /\ event_callback
    /\ jpc' = "dj_download"
    /\ UNCHANGED <<playlist_name, track_order, results, rpos, exc>>
    /\ UNCHANGED batchVars

\* results = spotdl_client.download_songs(...); a failure fails every track
\* and the job
dj_download ==
    /\ jpc = "dj_download"
    /\ \/ /\ job' = [job EXCEPT
                        !.status = "failed", !.error = "download",
                        !.tracks =
                            [i \in SongIds |->
                                IF \E k \in DOMAIN track_order :
                                       track_order[k] = i
                                THEN [@[i] EXCEPT !.status = "failed",
                                                  !.message = "download"]
                                ELSE @[i]]]
          /\ event_callback
          /\ jpc' = "done"
          /\ UNCHANGED <<results, rpos>>
       \/ /\ results' \in ResultLists(Len(track_order))
          /\ rpos' = 1
          /\ jpc' = "dj_result"
          /\ UNCHANGED <<job, events, subs>>
    /\ UNCHANGED <<playlist_name, track_order, exc>>
    /\ UNCHANGED batchVars

\* one pass of: for (track_id, _song), result in zip(track_order, results)
dj_result ==
    /\ jpc = "dj_result"
    /\ IF rpos > ZipLen
       THEN /\ jpc' = "dj_final"
            /\ UNCHANGED <<job, rpos, exc, events, subs>>
       ELSE LET track_id == track_order[rpos]
                failed(message) ==
                    /\ job' = [job EXCEPT !.tracks[track_id] =
                                  [@ EXCEPT !.status = "failed",
                                            !.message = message]]
                    /\ event_callback
                    /\ rpos' = rpos + 1
                    /\ UNCHANGED <<jpc, exc>>
            IN  IF results[rpos] = "malformed"
                THEN failed("Unexpected download result")
                ELSE IF results[rpos] = "no_path"
                THEN failed("No file path returned")
                ELSE /\ job' = [job EXCEPT !.tracks[track_id] =
                                   TrackState("downloaded", "", TRUE)]
                     /\ \/ /\ event_callback
                           /\ rpos' = rpos + 1
                           /\ UNCHANGED <<jpc, exc>>
                        \/ /\ playlist_name
                           /\ exc' = "sync_playlist_manifest"
                           /\ jpc' = "rj_except"
                           /\ UNCHANGED <<rpos, events, subs>>
    /\ UNCHANGED <<playlist_name, track_order, results>>
    /\ UNCHANGED batchVars

\* if any(track.status == "downloaded" ...): completed, else failed
dj_final ==
    /\ jpc = "dj_final"
    /\ job' = IF \E i \in SongIds : job.tracks[i].status = "downloaded"
              THEN [job EXCEPT !.status = "completed"]
              ELSE [job EXCEPT !.status = "failed",
                               !.error = "All tracks failed to download"]
    /\ event_callback
    /\ jpc' = "done"
    /\ UNCHANGED <<playlist_name, track_order, results, rpos, exc>>
    /\ UNCHANGED batchVars

\* run_job: except Exception as exc: the job fails with str(exc)
run_job_except ==
    /\ jpc = "rj_except"
    /\ job' = [job EXCEPT !.status = "failed", !.error = exc]
    /\ event_callback
    /\ jpc' = "done"
    /\ UNCHANGED <<playlist_name, track_order, results, rpos, exc>>
    /\ UNCHANGED batchVars

\* ------------------------------------------------ app.main: job_events
\* serialize_job(job): what a snapshot or an update shows of the job
serialize_job == <<job>>

\* job_events + the first step of event_stream:
\* queue = await job_manager.subscribe(job_id); the clients are numbered in
\* the order in which they connect
sub_subscribe(s) ==
    /\ subs[s].pc = "none"
    /\ \A t \in Subscribers : t < s => subs[t].pc # "none"
    /\ \E j \in {ServedJob, OtherJob} :
          subs' = [subs EXCEPT ![s].pc = "snapshot", ![s].job = j,
                               ![s].registered = TRUE,
                               ![s].joined = IF j = ServedJob THEN events
                                             ELSE 0]
    /\ UNCHANGED <<job, playlist_name, jpc, track_order, results, rpos, exc,
                   events>>
    /\ UNCHANGED batchVars

\* yield format_sse({"type": "snapshot", "data": serialize_job(job)})
sub_snapshot(s) ==
    /\ subs[s].pc = "snapshot"
    /\ subs' = [subs EXCEPT ![s].pc = "get",
                            ![s].last = IF subs[s].job = ServedJob
                                        THEN serialize_job ELSE @]
    /\ UNCHANGED <<job, playlist_name, jpc, track_order, results, rpos, exc,
                   events>>
    /\ UNCHANGED batchVars

\* await queue.get(): while self.empty(): ...; with an item in the queue,
\* get_nowait() and yield the update
sub_get(s) ==
    /\ subs[s].pc = "get"
    /\ subs' = IF subs[s].queue = 0
               THEN [subs EXCEPT ![s].pc = "register"]
               ELSE [subs EXCEPT ![s].queue = @ - 1, ![s].got = @ + 1,
                                 ![s].last = IF subs[s].job = ServedJob
                                             THEN serialize_job ELSE @]
    /\ UNCHANGED <<job, playlist_name, jpc, track_order, results, rpos, exc,
                   events>>
    /\ UNCHANGED batchVars

\* Queue.get on an empty queue: self._getters.append(getter); await getter
sub_register(s) ==
    /\ subs[s].pc = "register"
    /\ subs' = [subs EXCEPT ![s].pc = "waiting"]
    /\ UNCHANGED <<job, playlist_name, jpc, track_order, results, rpos, exc,
                   events>>
    /\ UNCHANGED batchVars

\* the client goes away while the generator is suspended at a yield or in
\* await getter: the generator is closed and its finally clause runs
\* await job_manager.unsubscribe(job_id, queue); the queue is dropped with the
\* generator
sub_disconnect(s) ==
    /\ subs[s].pc \in {"get", "waiting"}
    /\ subs' = [subs EXCEPT ![s] = [NoStream EXCEPT !.pc = "closed"]]
    /\ UNCHANGED <<job, playlist_name, jpc, track_order, results, rpos, exc,
                   events>>
    /\ UNCHANGED batchVars

\* ------------------------------- JobManager: the subscriber list in detail
\* JobManager.__init__: no list for the job, the lock free, no publish under
\* way.  list is _event_subscribers[job_id]; lock the client whose coroutine
\* holds _lock (0: free); idx the position of the loop of _broadcast in the
\* list object it iterates (0: no loop), which is the job's list (cur) or a
\* list that unsubscribe has replaced since, or the [] that get() returns
\* for a job without a list (old); made whether the job has a list; n the
\* publishes begun.
\* History of the publish: start (the clients in the list when it began),
\* gone (those whose unsubscribe had returned by then), sent (its puts).
NoHub ==
    [list |-> <<>>, made |-> FALSE, lock |-> 0, idx |-> 0, cur |-> TRUE,
     old |-> <<>>, n |-> 0,
     start |-> {}, gone |-> {}, sent |-> [s \in Subscribers |-> 0]]

\* the list object the loop of _broadcast iterates
Iterated == IF hub.cur THEN hub.list ELSE hub.old

\* faulty variant: unsubscribe removes the queue from the list object itself
unsubscribe_in_place(h, s) ==
    [h EXCEPT !.list = SelectSeq(@, LAMBDA q : q # s), !.lock = 0]

\* unsubscribe: if job_id in self._event_subscribers:
\*     self._event_subscribers[job_id] = [q for q in ... if q is not queue]
\* a new list object replaces the one a running loop iterates
unsubscribe(h, s) ==
    IF ~h.made
    THEN [h EXCEPT !.lock = 0]
    ELSE [h EXCEPT !.list = SelectSeq(@, LAMBDA q : q # s),
                   !.old = IF h.idx = 0 THEN <<>>
                           ELSE IF h.cur THEN h.list ELSE @,
                   !.cur = (h.idx = 0),
                   !.lock = 0]

\* async with self._lock: in subscribe (a new client) or in unsubscribe (a
\* client of the list, or one that has unsubscribed before)
hub_acquire(s) ==
    /\ hub.lock = 0
    /\ subs[s].pc \in {"none", "streaming", "closed"}
    /\ hub' = [hub EXCEPT !.lock = s]
    /\ subs' = [subs EXCEPT ![s].pc = IF @ = "none" THEN "locked_subscribe"
                                      ELSE "locked_unsubscribe"]
    /\ UNCHANGED <<job, playlist_name, jpc, track_order, results, rpos, exc,
                   events, cancel_at>>
    /\ UNCHANGED <<clockVars, limVars, posVars, flagVars, threadVars,
                   inputVars, saveVars, diskVars, fileVars, itemVars,
                   guiVars, histVars>>

\* the statement under the lock, and the release:
\* subscribe: self._event_subscribers.setdefault(job_id, []).append(queue)
\* unsubscribe: the list is replaced by the list without the queue
hub_mutate(s) ==
    /\ hub.lock = s
    /\ IF subs[s].pc = "locked_subscribe"
       THEN /\ hub' = [hub EXCEPT !.list = Append(@, s), !.made = TRUE,
                                  !.lock = 0]
            /\ subs' = [subs EXCEPT ![s].pc = "streaming",
                                    ![s].registered = TRUE]
       ELSE /\ hub' = unsubscribe(hub, s)
            /\ subs' = [subs EXCEPT ![s].pc = "closed",
                                    ![s].registered = FALSE]
    /\ UNCHANGED <<job, playlist_name, jpc, track_order, results, rpos, exc,
                   events, cancel_at>>
    /\ UNCHANGED <<clockVars, limVars, posVars, flagVars, threadVars,
                   inputVars, saveVars, diskVars, fileVars, itemVars,
                   guiVars, histVars>>

\* _broadcast, called on the executor thread: the loop takes the job's list,
\* or [] when the job has none (no lock is acquired)
bc_start ==
    /\ hub.idx = 0
    /\ hub.n < MaxPublishes
    /\ hub' = [hub EXCEPT
                  !.idx = 1, !.cur = hub.made, !.old = <<>>, !.n = @ + 1,
                  !.start = {hub.list[k] : k \in DOMAIN hub.list},
                  !.gone = {s \in Subscribers : subs[s].pc = "closed"},
                  !.sent = [s \in Subscribers |-> 0]]
    /\ UNCHANGED <<cancel_at, jobVars>>
    /\ UNCHANGED <<clockVars, limVars, posVars, flagVars, threadVars,
                   inputVars, saveVars, diskVars, fileVars, itemVars,
                   guiVars, histVars>>

\* one turn of the loop: queue.put_nowait("update") for the next queue of the
\* iterated list, or the end of the loop
bc_put ==
    /\ hub.idx > 0
    /\ IF hub.idx > Len(Iterated)
       THEN /\ hub' = [hub EXCEPT !.idx = 0, !.cur = TRUE, !.old = <<>>]
            /\ UNCHANGED subs
       ELSE LET q == Iterated[hub.idx]
            IN  /\ hub' = [hub EXCEPT !.idx = @ + 1, !.sent[q] = @ + 1]
                /\ subs' = [subs EXCEPT ![q].queue = @ + 1]
    /\ UNCHANGED <<job, playlist_name, jpc, track_order, results, rpos, exc,
                   events, cancel_at>>
    /\ UNCHANGED <<clockVars, limVars, posVars, flagVars, threadVars,
                   inputVars, saveVars, diskVars, fileVars, itemVars,
                   guiVars, histVars>>

\* --------------------------------------------------- save_download_manifest
\* manifest entries of the save harness
ManifestEntries ==
    { [key |-> k, path |-> Path("rel", n, "mp3")] :
        k \in {<<"a", "x">>, <<"a", "y">>}, n \in {"a", "v"} }

\* mappings: at most one entry per key
Manifests ==
    {m \in SUBSET ManifestEntries :
        \A e, f \in m : e.key = f.key => e = f}

\* json.dump(manifest, f, indent=2): the text of a mapping as the chunks that
\* reach the file, "{", one chunk per item, "}"
RECURSIVE ItemChunks(_)
ItemChunks(manifest) ==
    IF manifest = {} THEN <<>>
    ELSE LET e == CHOOSE x \in manifest : TRUE
         IN  <<e>> \o ItemChunks(manifest \ {e})

json_dump(manifest) == <<"{">> \o ItemChunks(manifest) \o <<"}">>

\* json.load: the mapping of a complete text; JSONDecodeError (ok FALSE)
\* otherwise
json_load(text) ==
    IF Len(text) >= 2 /\ text[1] = "{" /\ text[Len(text)] = "}"
    THEN [ok |-> TRUE, data |-> {text[k] : k \in 2..(Len(text) - 1)}]
    ELSE [ok |-> FALSE, data |-> {}]

\* load_download_manifest: {} for a missing file and for a text that does not
\* parse
load_download_manifest(text) ==
    IF json_load(text).ok THEN json_load(text).data ELSE {}

\* manifest_path.open("w", encoding="utf-8"): the file is truncated
sdm_open ==
    /\ pc = "sdm_open"
    /\ manifest_text' = <<>>
    /\ pc' = "sdm_dump"
    /\ UNCHANGED <<wfs_ret, wip_ret>>
    /\ UNCHANGED <<clockVars, limVars, flagVars, threadVars, inputVars,
                   watchVars, hubVars, jobVars, diskVars, fileVars, itemVars,
                   guiVars, histVars>>

\* json.dump(...): the next chunk of the text reaches the file
sdm_dump ==
    /\ pc = "sdm_dump"
    /\ LET text == json_dump(cleaned_manifest)
       IN  /\ manifest_text' = SubSeq(text, 1, Len(manifest_text) + 1)
           /\ pc' = IF Len(manifest_text) + 1 = Len(text) THEN "sdm_close"
                    ELSE "sdm_dump"
    /\ UNCHANGED <<wfs_ret, wip_ret>>
    /\ UNCHANGED <<clockVars, limVars, flagVars, threadVars, inputVars,
                   watchVars, hubVars, jobVars, diskVars, fileVars, itemVars,
                   guiVars, histVars>>

\* the with block ends: the file is closed and holds the new mapping
sdm_close ==
    /\ pc = "sdm_close"
    /\ manifest_disk' = [manifest_disk EXCEPT ![1] = cleaned_manifest]
    /\ pc' = "sdm_idle"
    /\ UNCHANGED <<wfs_ret, wip_ret, artifacts, manifest_text>>
    /\ UNCHANGED <<clockVars, limVars, flagVars, threadVars, inputVars,
                   watchVars, hubVars, jobVars, fileVars, itemVars, guiVars,
                   histVars>>

\* the save loop of run_downloader_for_csv goes on:
\* cleaned_manifest[track_key] = str(stored_path); save_download_manifest(...)
sdm_next ==
    /\ pc = "sdm_idle"
    /\ \E e \in ManifestEntries :
          /\ e.key \notin Keys(cleaned_manifest)
          /\ cleaned_manifest' = Put(cleaned_manifest, e.key, e.path)
    /\ pc' = "sdm_open"
    /\ UNCHANGED <<wfs_ret, wip_ret, tracks, pos, existing_track_keys,
                   downloaded_entries, resolved_entries, save_pos,
                   manifest_text>>
    /\ UNCHANGED <<clockVars, limVars, flagVars, threadVars, inputVars,
                   watchVars, hubVars, jobVars, diskVars, fileVars, guiVars,
                   histVars>>

\* the process is killed inside save_download_manifest
crash ==
    /\ pc \in {"sdm_open", "sdm_dump", "sdm_close"}
    /\ pc' = "crashed"
    /\ UNCHANGED <<wfs_ret, wip_ret, manifest_text>>
    /\ UNCHANGED <<clockVars, limVars, flagVars, threadVars, inputVars,
                   watchVars, hubVars, jobVars, diskVars, fileVars, itemVars,
                   guiVars, histVars>>

\* ------------------------------------------------------- limiter harness
\* rate_limiter.wait_for_slot(pause_event=..., cancel_event=...) called in a
\* loop on one limiter
LimiterCall ==
    /\ harness
    /\ pc = "lim_idle"
    /\ calls < MaxCalls
    /\ calls' = calls + 1
    /\ pc' = "wfs_entry"
    /\ trace' = Append(trace,
                       EntryAt("slot", IF cancel_event THEN "cancel" ELSE "",
                               calls + 1))
    /\ UNCHANGED <<wfs_ret, wip_ret, ctl, download_thread, harness, succeeded,
                   pause_seen>>
    /\ UNCHANGED <<clockVars, limVars, flagVars, inputVars, saveVars,
                   watchVars, hubVars, jobVars, diskVars, fileVars, itemVars,
                   guiVars>>

\* ------------------------------------------------------------ inputs drawn
Tr(title, artists, album) ==
    [title |-> title, artists |-> artists, album |-> album]

TrackPool ==
    { Tr("a", "x", ""), Tr("A", "x", ""), Tr("a", "y", ""), Tr("", "x", "") }

\* the rows of a several-file run and of a repeated run
FilePool == { Tr("a", "x", "") }

RowLists(pool, longest) ==
    UNION {[1..n -> pool] : n \in 0..longest}

\* playlist directories as found before the first run: nothing, a stray
\* file named after a title, a manifest entry with its file, a stale entry
EmptyDisk == [files |-> {}, manifest |-> {}]

DiskStates ==
    { EmptyDisk,
      [files |-> {Path("pl", "a", "mp3")}, manifest |-> {}],
      [files |-> {Path("pl", "v", "mp3")},
       manifest |-> {[key |-> <<"a", "x">>, path |-> Path("rel", "v", "mp3")]}],
      [files |-> {},
       manifest |-> {[key |-> <<"a", "x">>, path |-> Path("rel", "v", "mp3")]}] }

Args(nfiles, cap, dry, fmt, album) ==
    [nfiles |-> nfiles, max_downloads_per_hour |-> cap, dry_run |-> dry,
     audio_format |-> fmt, include_album |-> album, start |-> 1,
     has_limit |-> FALSE, limit |-> 0]

\* ------------------------------------------------------------------- Init
InitFlags ==
    /\ pause_event = FALSE
    /\ cancel_event = FALSE
    /\ ctl = "idle"
    /\ cancel_at = 0
    /\ hub = NoHub

InitWorker ==
    /\ now = 0
    /\ timestamps = <<>>
    /\ wake_at = 0
    /\ wfs_ret = "lim_idle"
    /\ wip_ret = "dt_item"
    /\ calls = 0
    /\ file_index = 1
    /\ status = 0
    /\ result = 0
    /\ retval = -1
    /\ tracks = <<>>
    /\ pos = 1
    /\ cleaned_manifest = {}
    /\ existing_track_keys = {}
    /\ downloaded_entries = <<>>
    /\ resolved_entries = <<>>
    /\ save_pos = 1
    /\ reset_pending = FALSE
    /\ runs = 0
    /\ trace = <<>>
    /\ succeeded = {}
    /\ pause_seen = FALSE

\* JobManager.create_job: Job(id=job_id, url=url), status queued, no tracks
InitJobState ==
    /\ job = [status |-> "queued", error |-> "",
              tracks |-> [i \in SongIds |-> Absent]]
    /\ playlist_name = FALSE
    /\ track_order = <<>>
    /\ results = <<>>
    /\ rpos = 1
    /\ exc = ""
    /\ events = 0
    /\ subs = [s \in Subscribers |-> NoStream]

\* no served job
InitNoJob ==
    /\ InitJobState
    /\ jpc = "none"

\* a job handed to the executor; the batch downloader is not in use
InitJob ==
    /\ InitJobState
    /\ manifest_text = <<>>
    /\ jpc = "rj_begin"
    /\ InitFlags
    /\ InitWorker
    /\ max_per_hour = 0
    /\ pc = "idle"
    /\ download_thread = "none"
    /\ download_button = "normal"
    /\ harness = FALSE
    /\ presses = 0
    /\ args = Args(0, 0, FALSE, "mp3", TRUE)
    /\ csv_exists = <<>>
    /\ csv_rows = <<>>
    /\ artifacts = <<>>
    /\ manifest_disk = <<>>

InitLimiter ==
    /\ InitFlags
    /\ manifest_text = <<>>
    /\ InitWorker
    /\ InitNoJob
    /\ max_per_hour \in -1..MaxCap
    /\ pc = "lim_idle"
    /\ download_thread = "alive"
    /\ download_button = "disabled"
    /\ harness = TRUE
    /\ presses = 0
    /\ args = Args(0, 0, FALSE, "mp3", TRUE)
    /\ csv_exists = <<>>
    /\ csv_rows = <<>>
    /\ artifacts = <<>>
    /\ manifest_disk = <<>>

\* launch_gui before the first press: no worker, both flags clear
InitGui(nfiles, lists, disks, times) ==
    /\ InitFlags
    /\ manifest_text = <<>>
    /\ InitWorker
    /\ InitNoJob
    /\ max_per_hour = 0
    /\ pc = "idle"
    /\ download_thread = "none"
    /\ download_button = "normal"
    /\ harness = FALSE
    /\ presses = times
    /\ \E cap \in 0..MaxRunCap : args = Args(nfiles, cap, FALSE, "mp3", TRUE)
    /\ csv_exists \in [1..nfiles -> BOOLEAN]
    /\ csv_rows \in [1..nfiles -> lists]
    /\ \A f \in 1..nfiles : ~csv_exists[f] => csv_rows[f] = <<>>
    /\ \E d \in [1..nfiles -> disks] :
          /\ artifacts = [f \in 1..nfiles |-> d[f].files]
          /\ manifest_disk = [f \in 1..nfiles |-> d[f].manifest]

\* one press, one CSV file
InitRun == InitGui(1, RowLists(TrackPool, MaxTracks), DiskStates, 1)

\* one press, several CSV files
InitFiles == InitGui(MaxFiles, RowLists(FilePool, MaxTracks), {EmptyDisk}, 1)

\* one press with a rate limit, one CSV file, the "Dry run" box ticked or not
InitDry ==
    /\ InitFlags
    /\ manifest_text = <<>>
    /\ InitWorker
    /\ InitNoJob
    /\ max_per_hour = 0
    /\ pc = "idle"
    /\ download_thread = "none"
    /\ download_button = "normal"
    /\ harness = FALSE
    /\ presses = 1
    /\ \E dry \in BOOLEAN : args = Args(1, MaxRunCap, dry, "mp3", TRUE)
    /\ csv_exists = <<TRUE>>
    /\ csv_rows \in [1..1 -> RowLists(TrackPool, MaxTracks)]
    /\ \E d \in DiskStates :
          /\ artifacts = <<d.files>>
          /\ manifest_disk = <<d.manifest>>

\* one press, one CSV file, an empty playlist directory
InitCalm == InitGui(1, RowLists(TrackPool, MaxTracks), {EmptyDisk}, 1)

\* rows with a title, with and without an artist
LocalPool == { Tr("a", "x", ""), Tr("a", "", "") }

\* playlist directories with and without a file named after the title, no
\* manifest
LocalDisks ==
    { EmptyDisk, [files |-> {Path("pl", "a", "mp3")}, manifest |-> {}] }

\* one press, one CSV file, files found in the playlist directory
InitLocal == InitGui(1, RowLists(LocalPool, MaxTracks), LocalDisks, 1)

\* run_downloader_for_csv at its save loop: the file holds a mapping, which
\* is also the reconciled cleaned_manifest
InitSave ==
    /\ InitFlags
    /\ InitNoJob
    /\ now = 0
    /\ timestamps = <<>>
    /\ wake_at = 0
    /\ wfs_ret = "lim_idle"
    /\ wip_ret = "dt_item"
    /\ calls = 0
    /\ file_index = 1
    /\ status = 0
    /\ result = 0
    /\ retval = -1
    /\ tracks = <<>>
    /\ pos = 1
    /\ existing_track_keys = {}
    /\ downloaded_entries = <<>>
    /\ resolved_entries = <<>>
    /\ save_pos = 1
    /\ reset_pending = FALSE
    /\ runs = 1
    /\ trace = <<>>
    /\ succeeded = {}
    /\ pause_seen = FALSE
    /\ max_per_hour = 0
    /\ download_thread = "alive"
    /\ download_button = "disabled"
    /\ harness = FALSE
    /\ presses = 1
    /\ args = Args(1, 0, FALSE, "mp3", TRUE)
    /\ csv_exists = <<TRUE>>
    /\ csv_rows = <<<<>>>>
    /\ artifacts = <<{}>>
    /\ pc = "sdm_idle"
    /\ \E old \in Manifests :
          /\ manifest_disk = <<old>>
          /\ manifest_text = json_dump(old)
          /\ cleaned_manifest = old

\* the same request run again: several presses, one CSV file
InitTwice == InitGui(1, RowLists(FilePool, MaxTracks), {EmptyDisk}, MaxRuns)

\* ------------------------------------------------------------------- Next
LimiterSteps ==
    \/ wfs_entry \/ wfs_cancel \/ wfs_pause \/ wfs_pcancel
    \/ wfs_admit \/ wfs_sleep

ControllerSteps ==
    \/ toggle_pause \/ cancel_download \/ cancel_clear_pause

WorkerSteps ==
    \/ rd_begin \/ rd_loop \/ rd_after
    \/ rdc_start \/ rdc_cancelled \/ rdc_post \/ rdc_save
    \/ dt_begin \/ dt_top \/ wip_pause \/ wip_cancel \/ dt_item
    \/ dt_slot \/ dt_after_slot \/ dt_fetch \/ dt_fetching
    \/ worker_report \/ worker_exit

GuiSteps ==
    \/ start_download \/ reset_controls

NextLimiter == LimiterCall \/ LimiterSteps \/ ControllerSteps \/ Tick

NextRun == WorkerSteps \/ LimiterSteps \/ ControllerSteps \/ GuiSteps \/ Tick

SpecLimiter == InitLimiter /\ [][NextLimiter]_vars

Spec == InitRun /\ [][NextRun]_vars

SpecFiles == InitFiles /\ [][NextRun]_vars

SpecLocal == InitLocal /\ [][NextRun]_vars

SpecDry == InitDry /\ [][NextRun]_vars

NextSave == sdm_open \/ sdm_dump \/ sdm_close \/ sdm_next \/ crash

SpecSave == InitSave /\ [][NextSave]_vars

\* a request before its settings are resolved: one CSV file, no press yet
InitSettings == InitGui(1, RowLists(TrackPool, MaxTracks), {EmptyDisk}, 0)

\* the settings are resolved and the rows of the file are read
NextSettings ==
    main_resolve \/ start_download_form \/ rd_begin \/ rd_loop \/ rdc_start

SpecSettings == InitSettings /\ [][NextSettings]_vars

NextTwice ==
    \/ WorkerSteps \/ LimiterSteps \/ ControllerSteps \/ Tick
    \/ start_again \/ reset_controls \/ remove_artifact

SpecTwice == InitTwice /\ [][NextTwice]_vars

JobSteps ==
    \/ dj_start \/ dj_search \/ dj_tracks \/ dj_download \/ dj_result
    \/ dj_final \/ run_job_except

SpecJob == InitJob /\ [][JobSteps]_vars

\* the worker's steps in a run in which cancel is never pressed
CalmWorkerSteps ==
    \/ rd_begin \/ rd_loop \/ rd_after
    \/ rdc_start \/ rdc_post \/ rdc_save
    \/ dt_begin \/ dt_top \/ wip_pause \/ wip_cancel \/ dt_item
    \/ dt_slot \/ dt_after_slot \/ dt_fetch \/ dt_fetching
    \/ worker_report \/ worker_exit

NextCalm == CalmWorkerSteps \/ LimiterSteps \/ toggle_pause \/ GuiSteps \/ Tick

\* a run without cancel: the worker thread is scheduled for as long as it has
\* a step to take, and time passes while it is blocked
SpecCalm ==
    /\ InitCalm
    /\ [][NextCalm]_vars
    /\ WF_vars(CalmWorkerSteps \/ LimiterSteps)
    /\ WF_vars(Tick)

SubscriberSteps ==
    \E s \in Subscribers :
        \/ sub_subscribe(s) \/ sub_snapshot(s) \/ sub_get(s)
        \/ sub_register(s) \/ sub_disconnect(s)

NextStream == JobSteps \/ SubscriberSteps

SpecStream == InitJob /\ [][NextStream]_vars

\* the steps of a client's generator that the event loop runs by itself
StreamSteps(s) == sub_snapshot(s) \/ sub_get(s) \/ sub_register(s)

\* the executor thread runs run_job to its end, and the event loop resumes
\* every generator that is ready; when a client connects or goes away is up
\* to the client
SpecStreamFair ==
    /\ InitJob
    /\ [][NextStream]_vars
    /\ WF_vars(JobSteps)
    /\ \A s \in Subscribers : WF_vars(StreamSteps(s))

\* publishes of the executor thread against subscribe and unsubscribe calls
\* of the event loop
NextHub ==
    \/ bc_start \/ bc_put
    \/ \E s \in Subscribers : hub_acquire(s) \/ hub_mutate(s)

SpecHub == InitJob /\ [][NextHub]_vars

\* ======================================================================
\* Claims
\* ======================================================================
Admitted == {k \in DOMAIN trace : trace[k].kind = "admit"}

SameItem(e, f) == e.run = f.run /\ e.file = f.file /\ e.index = f.index

\* the step appends an admission or the start of a fetch to the history
StartsWork ==
    /\ Len(trace') = Len(trace) + 1
    /\ trace'[Len(trace')].kind \in {"admit", "fetch"}

\* C1: with cap C > 0, no interval of 3600 seconds, end points included,
\* holds more than C admission timestamps of one limiter.
C1_NoWindowOverCap ==
    max_per_hour > 0 =>
        \A i \in Admitted :
            Cardinality({k \in Admitted :
                            /\ trace[k].t >= trace[i].t
                            /\ trace[k].t <= trace[i].t + WINDOW})
                <= max_per_hour

\* C2: while the items of a file are walked, every earlier item of the file
\* whose fetch succeeded has its key in the manifest on disk.
C2_PersistedAfterEachFetch ==
    \A s \in succeeded :
        ( /\ s.run = runs
          /\ s.file = file_index
          /\ pc \in {"dt_top", "dt_item", "dt_slot", "dt_after_slot",
                      "dt_fetch", "dt_fetching", "wip_pause", "wip_cancel",
                      "wfs_entry", "wfs_cancel", "wfs_pause", "wfs_pcancel",
                      "wfs_admit", "wfs_sleep", "rdc_cancelled"}
          /\ s.index < CurIndex )
        => s.key \in Keys(manifest_disk[s.file])

\* C3 as claimed: no admission is granted and no fetch is started at an
\* instant at which the pause flag is set.
C3_NoWorkWhilePaused ==
    [][StartsWork => ~pause_event]_vars

\* C3 as amended: an admission is granted and a fetch is started only when
\* the worker's last poll of the pause flag found it clear.
C3_WorkOnlyAfterClearPoll ==
    [][StartsWork => ~pause_seen]_vars

\* C3 witness: the worker holds an admitted item back because it polled the
\* pause flag and found it set.
C3_Witness ==
    /\ pc = "wip_cancel"
    /\ wip_ret = "dt_fetch"
    /\ pause_seen
    /\ \E k \in Admitted : trace[k].run = runs /\ trace[k].index = CurIndex

\* C5: once cancel is set, no time passes while the worker is still inside
\* the rate-limit wait.
C5_CancelEndsWait ==
    [][~(pc = "wfs_sleep" /\ cancel_event /\ now < wake_at /\ now' > now)]_vars

\* C6: an item for which wait_for_slot was called with cancel already set is
\* never fetched.
C6_NoFetchAfterCancelledSlot ==
    \A i \in DOMAIN trace, j \in DOMAIN trace :
        ~( /\ trace[i].kind = "slot"
           /\ trace[i].note = "cancel"
           /\ trace[j].kind = "fetch"
           /\ SameItem(trace[i], trace[j]) )

\* C8: when the walk over a file's items is over, every item has exactly one
\* finish or error event.
C8_OneOutcomePerItem ==
    pc = "rdc_post" =>
        \A p \in 1..Len(tracks) :
            Cardinality({k \in DOMAIN trace :
                            /\ trace[k].kind \in {"finish", "error"}
                            /\ trace[k].run = runs
                            /\ trace[k].file = file_index
                            /\ trace[k].index = (args.start - 1) + p}) = 1

Cancelled(run, file) ==
    \E k \in DOMAIN trace :
        trace[k].kind = "cancelled" /\ trace[k].run = run /\ trace[k].file = file

\* C9: an item whose fetch raised DownloadError has an error event and no
\* completion record; unless the run is cancelled, the file ends with result
\* 0 and every later item with search terms has been processed.
C9_FetchFailureDoesNotEndRun ==
    \A k \in DOMAIN trace :
        (trace[k].kind = "error" /\ trace[k].note = "Failed") =>
            /\ \A j \in DOMAIN trace :
                   ~(trace[j].kind = "save" /\ SameItem(trace[j], trace[k]))
            /\ ( /\ trace[k].run = runs
                 /\ trace[k].file = file_index
                 /\ pc = "rd_after"
                 /\ ~Cancelled(runs, file_index) ) =>
                   /\ result = 0
                   /\ \A p \in 1..Len(tracks) :
                          ( /\ (args.start - 1) + p > trace[k].index
                            /\ build_terms(tracks[p], args.include_album) # <<>> )
                          => \E j \in DOMAIN trace :
                                /\ j > k
                                /\ trace[j].kind \in {"start", "finish"}
                                /\ trace[j].run = runs
                                /\ trace[j].file = file_index
                                /\ trace[j].index = (args.start - 1) + p

\* C9 witness: the first item's fetch failed, the second was fetched, and the
\* file ended with result 0.
C9_Witness ==
    /\ pc = "rd_after"
    /\ result = 0
    /\ \E k \in DOMAIN trace, j \in DOMAIN trace :
          /\ trace[k].kind = "error" /\ trace[k].note = "Failed"
          /\ trace[j].kind = "fetch"
          /\ j > k
          /\ trace[j].run = trace[k].run /\ trace[j].file = trace[k].file
          /\ trace[j].index > trace[k].index

\* C4: once download_tracks has raised DownloadCancelled, nothing more of that
\* run is processed (no event, admission, fetch or later file), no completion
\* record is written for the interrupted item, the run returns 1 and the
\* worker reports it as cancelled.
C4_CancelUnwindsRun ==
    \A k \in DOMAIN trace :
        trace[k].kind = "cancelled" =>
            /\ \A j \in DOMAIN trace :
                   (j > k /\ trace[j].run = trace[k].run) =>
                       (trace[j].kind = "status" /\ trace[j].note = "cancelled")
            /\ \A j \in DOMAIN trace :
                   ~(trace[j].kind = "save" /\ SameItem(trace[j], trace[k]))
            /\ trace[k].run = runs =>
                   /\ pc \in {"rdc_cancelled", "rd_after", "w_report", "w_exit",
                               "idle"}
                   /\ file_index = trace[k].file
                   /\ retval \in {-1, 1}
                   /\ pc \in {"w_report", "w_exit", "idle"} => retval = 1

\* C4 witness: a run over two files was cancelled at the first item of the
\* first file, which has a second item, and has returned 1.
C4_Witness ==
    /\ pc = "idle"
    /\ retval = 1
    /\ args.nfiles = 2
    /\ csv_exists[2]
    /\ Len(csv_rows[1]) = 2
    /\ Len(csv_rows[2]) > 0
    /\ \E k \in DOMAIN trace :
          /\ trace[k].kind = "cancelled"
          /\ trace[k].file = 1
          /\ trace[k].index = 1

\* C7: after a first run that completed, the second run of the same request
\* grants no admission and starts no fetch for an item whose fetch succeeded
\* in the first run and whose files are all still on disk.
C7_SecondRunSkipsCompleted ==
    [][(StartsWork /\ runs = 2 /\ RunComplete(1)) =>
          \A s \in succeeded :
              ( /\ s.run = 1
                /\ s.file = trace'[Len(trace')].file
                /\ s.index = trace'[Len(trace')].index )
              => ~(s.files \subseteq artifacts[s.file])]_vars

\* C7 witness: the second run has skipped an item that the first run fetched
\* and whose files are still there.
C7_Witness ==
    /\ runs = 2
    /\ RunComplete(1)
    /\ \E s \in succeeded, j \in DOMAIN trace :
          /\ s.run = 1
          /\ s.files \subseteq artifacts[s.file]
          /\ trace[j].run = 2
          /\ trace[j].kind = "finish"
          /\ trace[j].note = "Skipped"
          /\ trace[j].file = s.file
          /\ trace[j].index = s.index
          /\ \A q \in DOMAIN trace :
                 trace[q].run = 2 => trace[q].kind # "fetch"

\* a track of the job has been given its outcome
SomeTrackProcessed ==
    \E i \in SongIds : job.tracks[i].status \in {"downloaded", "failed"}

\* C10: a job whose results were walked to the end becomes completed, and a
\* job becomes failed only before any of its tracks has been processed.
C10_WalkedJobCompletes ==
    [][ /\ jpc = "dj_final" => job'.status = "completed"
        /\ (job.status # "failed" /\ job'.status = "failed")
               => ~SomeTrackProcessed ]_vars

\* the executor has finished run_job and the job is completed or failed
JobTerminal ==
    /\ jpc = "done"
    /\ job.status \in {"completed", "failed"}

\* C11: once the job is terminal and a subscriber of the job has been
\* delivered the final state, its stream has ended and it is unsubscribed: it
\* is not left waiting on its empty queue.
C11_StreamEndsAtTerminal ==
    \A s \in Subscribers :
        ( /\ JobTerminal
          /\ subs[s].job = ServedJob
          /\ subs[s].last = serialize_job
          /\ subs[s].queue = 0 )
        => ~(subs[s].pc = "waiting" /\ subs[s].registered)

\* the executor is inside run_job
JobRunning == jpc \notin {"none", "done"}

\* C12: a broadcast adds exactly one update to the queue of every subscriber
\* registered for the job and nothing to any other queue, and the publisher
\* always has a next step, whatever the queues hold.
C12_BroadcastOnePerSubscriber ==
    /\ [](JobRunning => ENABLED JobSteps)
    /\ [][events' = events + 1 =>
            \A s \in Subscribers :
                subs'[s].queue =
                    IF s \in event_subscribers(ServedJob)
                    THEN subs[s].queue + 1
                    ELSE subs[s].queue]_vars

\* C12 witness: two broadcasts have reached a subscriber of the job, whose
\* queue holds both, and none has reached a subscriber of another job.
C12_Witness ==
    \E s, t \in Subscribers :
        /\ subs[s].job = ServedJob
        /\ subs[s].registered
        /\ subs[s].queue >= 2
        /\ events >= subs[s].joined + 2
        /\ subs[t].job = OtherJob
        /\ subs[t].registered
        /\ subs[t].pc \in {"get", "register", "waiting"}
        /\ subs[t].queue = 0

\* a subscriber of the served job that has its queue and has read none of the
\* updates put into it
NeverReads(t) ==
    /\ subs[t].job = ServedJob
    /\ subs[t].registered
    /\ subs[t].got = 0

Drained(s) ==
    /\ subs[s].job = ServedJob
    /\ subs[s].registered
    /\ subs[s].pc \in {"get", "register", "waiting"}
    /\ subs[s].queue = 0

CancelCleared == cancel_event /\ ~cancel_event'

\* the worker has executed the last statement of worker(): it has reported
\* the run and queued reset_controls
WorkerReturned == pc \in {"w_exit", "idle"}

\* C15 as claimed: a cancel flag that is set is cleared only when the worker
\* thread of the run is no longer alive.
C15_CancelKeptWhileThreadAlive ==
    [][CancelCleared => download_thread # "alive"]_vars

\* C15: a cancel flag that is set is cleared only after the worker of the run
\* has executed its last statement; until then neither toggle_pause nor
\* reset_controls nor start_download clears it.
C15_CancelKeptUntilWorkerReturned ==
    [][CancelCleared => WorkerReturned]_vars

\* C15 witness: the run was cancelled, toggle_pause was used after the cancel,
\* the worker reported "Downloads cancelled." and reset_controls has cleared
\* the flag.
C15_Witness ==
    /\ runs = 1
    /\ ~cancel_event
    /\ ~reset_pending
    /\ download_button = "normal"
    /\ \E k \in DOMAIN trace :
          /\ trace[k].kind = "status"
          /\ trace[k].note = "cancelled"
    /\ \E k \in DOMAIN trace : trace[k].kind = "cancelled"

\* C16: with cap C > 0, the admissions granted to the fetches of one run, over
\* all its input files, number at most C in any interval shorter than 3600
\* seconds.
C16_RunWideCap ==
    args.max_downloads_per_hour > 0 =>
        \A i \in Admitted :
            Cardinality({k \in Admitted :
                            /\ trace[k].run = trace[i].run
                            /\ trace[k].t >= trace[i].t
                            /\ trace[k].t < trace[i].t + WINDOW})
                <= args.max_downloads_per_hour

\* C18: with cap <= 0 a wait_for_slot call goes from its entry straight back
\* to its caller, whatever the flags are: it never reaches the pause loop, the
\* window or the sleep, raises nothing and records no timestamp, for every
\* call of a sequence.
C18_UnlimitedReturnsAtOnce ==
    (harness /\ max_per_hour <= 0) =>
        /\ pc \in {"lim_idle", "wfs_entry"}
        /\ timestamps = <<>>
        /\ Admitted = {}
        /\ \A k \in DOMAIN trace : trace[k].kind = "slot"

\* C18 witness: the last of the consecutive calls has returned on an unlimited
\* limiter while the pause flag is set.
C18_Witness ==
    /\ harness
    /\ max_per_hour <= 0
    /\ calls = MaxCalls
    /\ pc = "lim_idle"
    /\ pause_event
    /\ timestamps = <<>>

\* the last instant of the clock
Horizon == WINDOW * (IF harness THEN MaxHours ELSE MaxRunHours)

\* the history has an entry of that kind for the item at that index
Logged(kind, i) ==
    \E k \in DOMAIN trace : trace[k].kind = kind /\ trace[k].index = i

\* the worker sleeps in wait_for_slot for a slot that opens after the last
\* instant of the clock
SlotBeyondHorizon == pc = "wfs_sleep" /\ wake_at > Horizon

\* C17: with cap > 0, when cancel is never set and the pause flag is
\* eventually left clear, every wait_for_slot call made for an item is
\* followed by its admission and the admission by the fetch of the item,
\* unless the slot opens after the last instant of the clock.
C17_LimiterOnlyDelays ==
    ([]~cancel_event /\ <>[]~pause_event) =>
        \A i \in 1..MaxTracks :
            /\ (Logged("slot", i) /\ max_per_hour > 0)
                   ~> (Logged("admit", i) \/ SlotBeyondHorizon)
            /\ Logged("admit", i) ~> Logged("fetch", i)

\* C17 witness: the second item waited in wait_for_slot for the window of the
\* first admission to pass, was admitted after a pause, and its fetch was
\* started.
C17_Witness ==
    /\ max_per_hour > 0
    /\ ~cancel_event
    /\ Logged("fetch", 2)
    /\ \E j, k \in Admitted :
          /\ trace[j].index = 1
          /\ trace[k].index = 2
          /\ trace[k].t >= trace[j].t + WINDOW
    /\ \A k \in DOMAIN trace : trace[k].kind # "cancelled"

\* the stored locator, taken under the playlist directory when relative,
\* names one of the files
LocatorExists(path, files) ==
    \/ path.dir = "rel" /\ Path("pl", path.name, path.ext) \in files
    \/ path.dir # "rel" /\ path \in files

\* the manifest entries whose locator names an existing file
LiveEntries(manifest, files) ==
    {e \in manifest : LocatorExists(e.path, files)}

\* the worker is walking the items of the file
InWalk ==
    pc \in {"dt_begin", "dt_top", "dt_item", "dt_slot", "dt_after_slot",
            "dt_fetch", "dt_fetching", "wip_pause", "wip_cancel",
            "wfs_entry", "wfs_cancel", "wfs_pause", "wfs_pcancel",
            "wfs_admit", "wfs_sleep"}

\* C19: the skip-set handed to the walk is the set of manifest keys whose
\* locator names an existing file; during the walk a key is in the skip-set
\* only for such an entry or for an item of this run that was finished; and
\* every manifest the run writes holds only entries whose locator names an
\* existing file.
C19_ReconciledSkipSet ==
    /\ [](pc = "dt_begin" =>
             /\ existing_track_keys =
                    Keys(LiveEntries(manifest_disk[file_index],
                                     artifacts[file_index]))
             /\ cleaned_manifest =
                    LiveEntries(manifest_disk[file_index],
                                artifacts[file_index]))
    /\ [](InWalk =>
             \A key \in existing_track_keys :
                 \/ key \in Keys(LiveEntries(manifest_disk[file_index],
                                              artifacts[file_index]))
                 \/ \E j \in DOMAIN trace :
                        /\ trace[j].kind = "finish"
                        /\ trace[j].run = runs
                        /\ trace[j].file = file_index
                        /\ identifier(tracks[trace[j].index],
                                      args.include_album) = key)
    /\ [][manifest_disk' # manifest_disk =>
             manifest_disk'[file_index] =
                 LiveEntries(manifest_disk'[file_index],
                             artifacts'[file_index])]_vars

\* C19 witness: the manifest holds an entry whose file is gone, and the item
\* of that key, the first of the file, was not skipped: its fetch was started.
C19_Witness ==
    /\ InWalk
    /\ \E e \in manifest_disk[file_index] :
          /\ ~LocatorExists(e.path, artifacts[file_index])
          /\ e.key \notin existing_track_keys
          /\ identifier(tracks[1], args.include_album) = e.key
          /\ \E j \in DOMAIN trace :
                 trace[j].kind = "fetch" /\ trace[j].index = 1

\* the file named after the title of the track, under the first acceptable
\* extension that exists; NoPath when there is none
Discovered(track) ==
    IF track.title = "" THEN NoPath
    ELSE first_existing(artifacts[file_index], sanitize_filename(track.title),
                        candidate_exts(args.audio_format))

\* the item at that index was skipped with a finish event on account of the
\* file at that path: download_tracks returned the path for the item
FileSkipped(i, path) ==
    /\ \E k \in DOMAIN trace :
          /\ trace[k].kind = "finish"
          /\ trace[k].note = "Skipped"
          /\ trace[k].run = runs
          /\ trace[k].file = file_index
          /\ trace[k].index = i
    /\ \E k \in DOMAIN downloaded_entries :
          /\ downloaded_entries[k].index = i
          /\ downloaded_entries[k].path = path

\* C20: the worker's step that processes an item whose title names an
\* existing file sends the finish event "Skipped" and leaves the item without
\* admission or fetch; and when the file has been processed to its end, the
\* manifest maps the non-empty key of every item skipped for its file to that
\* file.
C20_LocalArtifactWins ==
    /\ [][(pc = "dt_item" /\ pc' # pc /\ Discovered(tracks[pos]) # NoPath) =>
             /\ trace' = Append(trace, Entry("finish", "Skipped"))
             /\ pc' = "dt_top"]_vars
    /\ []((pc = "rd_after" /\ result = 0) =>
             \A i \in DOMAIN tracks :
                 ( /\ FileSkipped(i, Discovered(tracks[i]))
                   /\ identifier(tracks[i], args.include_album) # <<>> )
                 => [key |-> identifier(tracks[i], args.include_album),
                     path |-> relative_to(Discovered(tracks[i]))]
                        \in manifest_disk[file_index])

\* C21: after a crash inside save_download_manifest, loading the manifest
\* gives the mapping the file held before the call or the mapping that was
\* being saved.
C21_SaveIsAtomic ==
    pc = "crashed" =>
        load_download_manifest(manifest_text)
            \in {manifest_disk[1], cleaned_manifest}

\* the history entries of that kind for the item at that index
EventsAt(kind, i) ==
    {k \in DOMAIN trace : trace[k].kind = kind /\ trace[k].index = i}

\* the rows of the file have pairwise distinct keys
DistinctKeys(rows) ==
    \A i, j \in DOMAIN rows :
        i # j => identifier(rows[i], args.include_album)
                    # identifier(rows[j], args.include_album)

\* every fetch of the run has left its file on disk
EveryFetchSucceeded ==
    \A k \in DOMAIN trace :
        trace[k].kind = "fetch" =>
            \E s \in succeeded : s.run = trace[k].run /\ s.index = trace[k].index

\* C22: a run over n rows with distinct keys that starts from an empty
\* playlist directory and whose fetches all succeed has sent, when
\* run_downloader returns, one start and one finish event per row, the start
\* before the finish and the rows in input order, returns 0 and has written a
\* manifest of n entries.
C22_ScenarioA ==
    ( /\ pc = "w_report"
      /\ csv_exists[1]
      /\ DistinctKeys(csv_rows[1])
      /\ EveryFetchSucceeded )
    => /\ \A i \in DOMAIN csv_rows[1] :
             /\ Cardinality(EventsAt("start", i)) = 1
             /\ Cardinality(EventsAt("finish", i)) = 1
             /\ \A j \in EventsAt("start", i), k \in EventsAt("finish", i) :
                    j < k
       /\ \A j, k \in DOMAIN trace :
             ( /\ j < k
               /\ trace[j].kind \in {"start", "finish"}
               /\ trace[k].kind \in {"start", "finish"} )
             => trace[j].index <= trace[k].index
       /\ retval = 0
       /\ Cardinality(manifest_disk[1]) = Len(csv_rows[1])

\* the fetches recorded so far
Fetched == {k \in DOMAIN trace : trace[k].kind = "fetch"}

\* the worker of a run with cap 1 is in the rate-limit wait, or at the cancel
\* check that follows it
InCapWait ==
    /\ ~harness
    /\ max_per_hour = 1
    /\ pc \in {"wfs_sleep", "wfs_cancel"}
    /\ timestamps # <<>>

\* two admissions of one file are at least a window apart
AdmissionsApart ==
    \A j, k \in Admitted :
        (j < k /\ trace[j].run = trace[k].run /\ trace[j].file = trace[k].file)
        => trace[k].t >= trace[j].t + WINDOW

\* the worker waits for the second admission with the cancel flag set: the
\* flag stays, nothing is fetched, and the worker's next step is the cancel
\* check, which raises DownloadCancelled
CancelSeenAfterWait ==
    (InCapWait /\ cancel_event)
    => /\ cancel_event'
       /\ {k \in DOMAIN trace' : trace'[k].kind = "fetch"} = Fetched
       /\ pc' # pc =>
            IF pc = "wfs_sleep" THEN pc' = "wfs_cancel"
                                ELSE pc' = "rdc_cancelled"

\* the wait for the second admission follows one fetch, that of the first
\* admission
OneFetchBeforeWait ==
    (InCapWait /\ Cardinality(Admitted) = 1)
    => /\ Cardinality(Fetched) = 1
       /\ \A k \in Fetched : trace[k].index < CurIndex

\* after DownloadCancelled the run fetches nothing more and returns 1
EndsCancelled ==
    \A c \in DOMAIN trace :
        trace[c].kind = "cancelled" =>
            /\ \A k \in Fetched : k < c /\ trace[k].index < trace[c].index
            /\ retval \in {-1, 1}

\* C23: with a cap of 1 the second admission of a file comes 3600 s or more
\* after the first; a cancel set while the worker waits for it makes the
\* worker raise DownloadCancelled at the end of the wait, and the run returns
\* 1 with one fetch made and none for the second item.
C23_CapOneThenCancel ==
    /\ []((~harness /\ max_per_hour = 1) => AdmissionsApart)
    /\ []OneFetchBeforeWait
    /\ [][CancelSeenAfterWait]_vars
    /\ [](~harness => EndsCancelled)

\* C23 witness: the run was cancelled during the wait for the second
\* admission and has returned 1 after one fetch.
C23_Witness ==
    /\ ~harness
    /\ max_per_hour = 1
    /\ retval = 1
    /\ Cardinality(Fetched) = 1
    /\ Cardinality(Admitted) = 1
    /\ \E c \in DOMAIN trace : trace[c].kind = "cancelled" /\ trace[c].index = 2
    /\ now >= WINDOW

\* a required field of the row, title or artist, is missing
MissingField(row) == row.title = "" \/ row.artists = ""

\* C24: the key of a row is empty exactly when a required field is missing,
\* that is, exactly when build_terms gives no search terms; the empty key is
\* never fetched for, never in the skip-set and never in the manifest.
C24_EmptyKeyIffNoTerms ==
    /\ \A f \in DOMAIN csv_rows : \A i \in DOMAIN csv_rows[f] :
          LET row == csv_rows[f][i]
          IN  /\ (identifier(row, args.include_album) = <<>>) <=> MissingField(row)
              /\ (identifier(row, args.include_album) = <<>>)
                     <=> (build_terms(row, args.include_album) = <<>>)
    /\ <<>> \notin existing_track_keys
    /\ <<>> \notin Keys(manifest_disk[1])
    /\ \A k \in Fetched :
          identifier(csv_rows[trace[k].file][trace[k].index],
                     args.include_album) # <<>>

\* the rows of a file from position start on, at most limit of them
RowsFrom(rows, start, has_limit, limit) ==
    LET last == IF has_limit /\ start + limit - 1 < Len(rows)
                THEN start + limit - 1 ELSE Len(rows)
    IN  [k \in 1..(IF last < start THEN 0 ELSE last - start + 1) |->
            rows[start + k - 1]]

\* the rows of the file have been read with the resolved settings
RowsRead == pc \in {"dt_begin", "rd_after"} /\ csv_exists[1]

\* C25: a resolved run request has start >= 1 and a limit that is absent or
\* positive, and the rows read with it are, in order, the rows of the file
\* from position start on, at most limit of them.
C25_ResolvedSettings ==
    /\ pc # "idle" =>
          /\ args.start >= 1
          /\ ~args.has_limit \/ args.limit > 0
    /\ RowsRead =>
          tracks = RowsFrom(csv_rows[1], args.start, args.has_limit, args.limit)

\* C26: with a cap C > 0 the window of the limiter holds at most C
\* timestamps, in non-decreasing order, after every wait_for_slot call (and
\* at every step in between).
C26_WindowBounded ==
    (harness /\ max_per_hour > 0) =>
        /\ Len(timestamps) <= max_per_hour
        /\ \A j, k \in DOMAIN timestamps :
              j < k => timestamps[j] <= timestamps[k]

\* C26 witness: after a call that returned the window is full, and a
\* timestamp of an earlier hour has been dropped from it.
C26_Witness ==
    /\ harness
    /\ pc = "lim_idle"
    /\ max_per_hour = MaxCap
    /\ Len(timestamps) = MaxCap
    /\ Cardinality(Admitted) > MaxCap
    /\ timestamps[1] < timestamps[Len(timestamps)]

\* a fetch of the current run for the item at that index or a later one
FetchedFrom(i) ==
    \E k \in Fetched : trace[k].run = runs /\ trace[k].index >= i

\* C27: when cancel_download sets the flag while the worker is inside a
\* pause loop (wait_if_paused or the pause loop of wait_for_slot), no fetch is
\* invoked for the item the worker is at or for a later one, whichever way
\* the two steps of cancel_download fall between the worker's polls.
C27_CancelInPauseStopsFetches ==
    cancel_at > 0 => ~FetchedFrom(cancel_at)

\* the history entries made for an item: its events, its admission, its fetch
ItemEntries ==
    {k \in DOMAIN trace :
        trace[k].kind \in {"start", "finish", "error", "slot", "admit", "fetch"}}

\* C28: however pause_event is toggled, the worker walks the rows of a file
\* once and in input order: the indices of the entries made for items never
\* decrease, no item is fetched twice, the position moves by one step at a
\* time, and a worker that leaves a pause loop is at the item it was paused
\* on.
C28_WalkOnceInOrder ==
    /\ [](\A j, k \in ItemEntries :
              ( /\ j < k
                /\ trace[j].run = trace[k].run
                /\ trace[j].file = trace[k].file )
              => /\ trace[j].index <= trace[k].index
                 /\ (trace[j].kind = "fetch" /\ trace[k].kind = "fetch")
                        => trace[j].index < trace[k].index)
    /\ [][(InWalk /\ InWalk' /\ pc # "dt_begin")
              => pos' \in {pos, pos + 1}]_vars
    /\ [][(PauseBlocked /\ pc' # pc /\ InWalk') => pos' = pos]_vars

\* C28 witness: the worker has fetched the first row, was paused on the
\* second, the user has resumed, and the worker is about to poll the flag.
C28_Witness ==
    /\ PauseBlocked
    /\ ~pause_event
    /\ ~cancel_event
    /\ pc = "wip_pause"
    /\ pos = 2
    /\ \E k \in Fetched : trace[k].run = runs /\ trace[k].index = 1

\* C29: the loop of _broadcast never runs over the list of the job while a
\* subscribe or unsubscribe call holds the lock under which it changes that
\* list.
C29_PublishExcludesMutation ==
    ~(hub.idx > 0 /\ hub.cur /\ hub.lock # 0)

\* the clients in the list of the job
Listed == {hub.list[k] : k \in DOMAIN hub.list}

\* client s returns from unsubscribe in this step
Unsubscribes(s) ==
    subs[s].pc = "locked_unsubscribe" /\ subs'[s].pc = "closed"

\* C30: unsubscribe takes the caller's queue, and nothing else, out of the
\* list of the job, in the order the list had, and changes nothing when the
\* queue is not in it; a publish delivers exactly one update to every client
\* that was in the list when it began, also when an unsubscribe of another
\* client (or of that client) falls into it, and never two to anyone; and a
\* publish that begins after a client's unsubscribe has returned delivers
\* nothing to that client.
C30_UnsubscribeIsSafe ==
    /\ [][\A s \in Subscribers :
             Unsubscribes(s) =>
                 hub'.list = SelectSeq(hub.list, LAMBDA q : q # s)]_vars
    /\ []((hub.idx = 0 /\ hub.n > 0) =>
             \A t \in hub.start : hub.sent[t] = 1)
    /\ [](\A t \in Subscribers : hub.sent[t] <= 1)
    /\ [](\A s \in hub.gone : hub.sent[s] = 0)

\* C30 witness: a publish began with two clients in the list; the first
\* unsubscribed while the loop was running, so that the loop runs over the
\* replaced list; the second is still in the list, and each of them has got
\* its update.
C30_Witness ==
    /\ hub.idx > 0
    /\ hub.made
    /\ ~hub.cur
    /\ hub.start = Subscribers
    /\ Listed = {2}
    /\ subs[1].pc = "closed"
    /\ hub.sent[1] = 1
    /\ hub.sent[2] = 1

\* C31: the status of a served job changes only from queued to running and
\* from running to completed or failed: no terminal status without having
\* been running, no way back, and no change once it is terminal.
C31_StatusLifecycle ==
    [][job'.status # job.status =>
          \/ job.status = "queued" /\ job'.status = "running"
          \/ job.status = "running"
                /\ job'.status \in {"completed", "failed"}]_vars

\* the worker is about to process an item whose key is in the skip-set
KeyKnown ==
    /\ ~harness
    /\ pc = "dt_item"
    /\ identifier(tracks[pos], args.include_album) # <<>>
    /\ identifier(tracks[pos], args.include_album) \in existing_track_keys

\* the item at that index of the first file was skipped on account of its
\* key: a finish event "Skipped" and no path returned for it
KeySkipped(i) ==
    /\ \E k \in EventsAt("finish", i) : trace[k].note = "Skipped"
    /\ \A k \in DOMAIN downloaded_entries : downloaded_entries[k].index # i

\* every row of the file was skipped on account of its key or fetched with
\* its file left on disk
SkippedOrFetched ==
    \A i \in DOMAIN tracks :
        KeySkipped(i) \/ \E s \in succeeded : s.index = i

ReportedSkipped(i) ==
    \E k \in EventsAt("finish", i) : trace[k].note = "Skipped"

\* C34: in a run that starts from an empty playlist directory with no
\* manifest, an item is reported as skipped only if an earlier item of the
\* file has an equal key.
C34_SkippedOnlyForEqualKey ==
    \A i \in DOMAIN csv_rows[1] :
        ReportedSkipped(i) =>
            \E j \in 1..(i - 1) :
                identifier(csv_rows[1][j], args.include_album)
                    = identifier(csv_rows[1][i], args.include_album)

\* the admissions recorded for item i of the run
AdmittedAt(i) == {k \in Admitted : trace[k].run = runs /\ trace[k].index = i}

\* C35: in a run with a rate limit, every call of extract_info has exactly
\* one admission of its item before it; an item that is dropped for want of
\* search terms, reported as skipped, or handled in dry-run mode has no
\* admission; and the step in which a fetch ends, with or without an error,
\* leaves the admission in the window.
C35_OneAdmissionPerFetch ==
    /\ [](args.max_downloads_per_hour > 0 =>
            /\ \A k \in Fetched :
                  /\ Cardinality(AdmittedAt(trace[k].index)) = 1
                  /\ \A a \in AdmittedAt(trace[k].index) : a < k
            /\ \A i \in DOMAIN tracks :
                  ( \/ build_terms(tracks[i], args.include_album) = <<>>
                    \/ ReportedSkipped((args.start - 1) + i)
                    \/ args.dry_run )
                  => AdmittedAt((args.start - 1) + i) = {})
    /\ [][(pc = "dt_fetching" /\ pc' # pc) =>
              timestamps' = timestamps]_vars

\* C35 witness: with a rate limit, the first item's fetch has failed after its
\* one admission, which is still in the window, and the second item was
\* skipped without one.
C35_Witness ==
    /\ args.max_downloads_per_hour > 0
    /\ \E k \in EventsAt("error", 1) : trace[k].note = "Failed"
    /\ Cardinality(AdmittedAt(1)) = 1
    /\ Len(timestamps) = 1
    /\ ReportedSkipped(2)
    /\ AdmittedAt(2) = {}

\* the window after the step is what is left of the window before it once
\* timestamps have been dropped from its front
OnlyPruned ==
    \E n \in 0..Len(timestamps) :
        timestamps' = SubSeq(timestamps, n + 1, Len(timestamps))

\* C36: a wait_for_slot call that raises DownloadCancelled has no admission:
\* the step that raises leaves the window as it is, the only step that adds a
\* timestamp is the one that returns from the call, and a call with a
\* "cancelled" entry has no "admit" entry.
C36_CancelledWaitTakesNoSlot ==
    /\ [](harness =>
            \A k \in DOMAIN trace :
                trace[k].kind = "cancelled" =>
                    \A a \in Admitted : trace[a].index # trace[k].index)
    /\ [][(harness /\ pc' = "lim_raised" /\ pc # "lim_raised") =>
              timestamps' = timestamps]_vars
    /\ [][(harness /\ ~OnlyPruned) =>
              /\ pc = "wfs_admit"
              /\ pc' = wfs_ret
              /\ trace' = Append(trace, Entry("admit", ""))]_vars

\* C36 witness: the second call on a limiter with cap 1 found the window full,
\* waited, and was cancelled; the window still holds the first call's
\* timestamp only.
C36_Witness ==
    /\ harness
    /\ pc = "lim_raised"
    /\ max_per_hour = 1
    /\ calls = 2
    /\ wake_at > 0
    /\ Cardinality(Admitted) = 1
    /\ Len(timestamps) = 1

\* the track ids the search resolved
JobTrackIds == {track_order[k] : k \in DOMAIN track_order}

\* C37: when the job is completed or failed, every track of the job is
\* downloaded or failed, a completed job has a downloaded track and a failed
\* job has an error text.
C37_TerminalJobHasFinalTracks ==
    JobTerminal =>
        /\ \A i \in JobTrackIds :
              job.tracks[i].status \in {"downloaded", "failed"}
        /\ job.status = "completed" =>
              \E i \in JobTrackIds : job.tracks[i].status = "downloaded"
        /\ job.status = "failed" => job.error # ""

\* C37, the part about the job alone: a completed job has a downloaded track
\* and a failed job has an error text.
C37_JobPart ==
    JobTerminal =>
        /\ job.status = "completed" =>
              \E i \in JobTrackIds : job.tracks[i].status = "downloaded"
        /\ job.status = "failed" => job.error # ""

\* the client was in the served job's list when the last event was published
HadLastEvent(s) ==
    /\ subs[s].registered
    /\ subs[s].job = ServedJob
    /\ subs[s].joined < events

\* the client has been sent an update that shows the job as it is now
ShownFinalState(s) ==
    /\ subs[s].got > 0
    /\ subs[s].last = serialize_job

\* C38: every step that makes the served job completed or failed publishes an
\* event, and a client that was subscribed at that time is in the end sent an
\* update that shows the terminal status, unless it goes away first.
C38_TerminalStatusDelivered ==
    /\ [][(job'.status \in {"completed", "failed"}
             /\ job'.status # job.status) => events' = events + 1]_vars
    /\ \A s \in Subscribers :
          (JobTerminal /\ HadLastEvent(s))
              ~> (ShownFinalState(s) \/ subs[s].pc = "closed")

\* C38, the publisher's part: every step that makes the job completed or
\* failed publishes an event, which adds an update to the queue of every
\* client subscribed to the job.
C38_TerminalStepPublishes ==
    [][(job'.status \in {"completed", "failed"} /\ job'.status # job.status)
          => /\ events' = events + 1
             /\ \A s \in Subscribers :
                   (subs[s].registered /\ subs[s].job = ServedJob)
                       => subs'[s].queue = subs[s].queue + 1]_vars

\* a client blocked in await getter with the last update in its queue, after
\* the job has ended
LostWakeup(s) ==
    /\ JobTerminal
    /\ HadLastEvent(s)
    /\ subs[s].pc = "waiting"
    /\ subs[s].queue > 0
    /\ ~ShownFinalState(s)

\* the history entries made while file f was the current one, the "file"
\* event apart
FileEntries(f) ==
    {k \in DOMAIN trace : trace[k].file = f /\ trace[k].kind # "file"}

\* file f was missing, or its processing ended with DownloadCancelled
FileFault(f) ==
    \/ ~csv_exists[f]
    \/ \E k \in FileEntries(f) : trace[k].kind = "cancelled"

\* C39: when run_downloader returns from a run over several files, the value
\* is 0 exactly when the loop went past the last file (cancel was not set
\* after any file) and no file was missing or cancelled; a missing file has
\* no item processed and no manifest; and the step after a file, with cancel
\* not set, goes on to the next file and keeps a non-zero status unless the
\* file's own result is non-zero.
C39_ReturnValueOverFiles ==
    /\ [](pc = "w_report" =>
            /\ retval = 0 <=>
                  /\ file_index > args.nfiles
                  /\ \A f \in 1..args.nfiles : ~FileFault(f)
            /\ \A f \in 1..args.nfiles :
                  ~csv_exists[f] =>
                      /\ FileEntries(f) = {}
                      /\ manifest_disk[f] = {}
                      /\ artifacts[f] = {})
    /\ [][(pc = "rd_after" /\ pc' # pc /\ ~cancel_event) =>
              /\ pc' = "rd_loop"
              /\ file_index' = file_index + 1
              /\ status # 0 => status' # 0
              /\ result # 0 => status' # 0]_vars

\* C39 witness: the first file was missing, the second was processed with a
\* fetch that left its file and a manifest, cancel was never set, and
\* run_downloader returns 1.
C39_Witness ==
    /\ pc = "w_report"
    /\ args.nfiles = 2
    /\ ~csv_exists[1]
    /\ csv_exists[2]
    /\ ~cancel_event
    /\ \E s \in succeeded : s.file = 2
    /\ manifest_disk[2] # {}
    /\ retval = 1

====
